---------------------------- MODULE Spec2Model ----------------------------
(***************************************************************************)
(* Line-scheduling engine of schedule_tab.py: transition resolution,       *)
(* priority sequencing with the optional CP-SAT reordering, the per-line   *)
(* build with threshold-driven automatic cleanings, the conflict probe    *)
(* and the shift splitter.                                                 *)
(*                                                                         *)
(* Conventions of the model                                                *)
(*  - a line "Линия N" is the number N; a cache key "линия k" is k.        *)
(*  - a job's product key (the result of _get_product_name) is job.name.   *)
(*  - Cyrillic tags are transliterated: "ВЫТ" -> "VYT", "П" -> "P",        *)
(*    "база" -> "baza".                                                    *)
(*  - a JSON cell holding text is <<n>> when int() parses it to n and <<>> *)
(*    when it is empty or unparsable.                                      *)
(*  - a "DD.MM HH:MM" stamp is the record [day, hm]: day index and minute  *)
(*    of the day; the year is not part of the stamp.                       *)
(***************************************************************************)
EXTENDS Integers, Sequences, FiniteSets, TLC

VARIABLES
    \* ---- inputs of one build (read once, never changed) ----
    line,               \* the line being built
    jobs,               \* the jobs handed to _build_schedule_for_line, submission order
    cfg,                \* threshold_config of the line (cip_thresholds.json)
    use_cp_sat,         \* build parameter
    fix_priorities,     \* build parameter: the locked priority values
    base,               \* minute of the day of shift_start (h0*60 + m0)
    evictions,          \* _EVICTIONS_CACHE: sequence of [key, table]
    rules,              \* _RULES_CACHE: sequence of [key, table]
    norms,              \* norms_data.json: sequence of rows
    \* ---- state of _build_schedule_for_line ----
    pc,                 \* position in the build
    sorted,             \* result of _sort_by_priority (indices into jobs)
    order,              \* the list `jobs` the main loop walks (indices into jobs)
    solver,             \* outcome of the CP-SAT call ("none" when not called)
    idx,                \* loop index of `for idx, job in enumerate(jobs)` (1-based)
    t,                  \* minutes since base_dt
    results,            \* the entry list
    prev_job,           \* 0 for None, else an index into jobs
    total_volume_since_cip,
    current_product_volume,
    current_product_name,
    last_auto_cip_index,
    remaining_qty,
    remaining_qty_pieces,
    part_number,
    iter,               \* locals of the last iteration of the split loop
    \* ---- argument/result cells of the pure functions ----
    call,               \* arguments of the function under study
    ret                 \* its result

buildVars == <<pc, sorted, order, solver, idx, t, results, prev_job,
               total_volume_since_cip, current_product_volume,
               current_product_name, last_auto_cip_index, remaining_qty,
               remaining_qty_pieces, part_number, iter>>
inputVars == <<line, jobs, cfg, use_cp_sat, fix_priorities, base>>
tableVars == <<evictions, rules, norms>>
vars == <<inputVars, tableVars, buildVars, call, ret>>

-----------------------------------------------------------------------------
(* Bounds of the model *)

MaxJobs == 2
MaxQty == 3
MaxThreshold == 2
MaxRemainder == 3
MaxFirst == 15          \* minutes of a cut entry before the shift boundary
MaxSecond == 7          \* minutes of a cut entry after the shift boundary
MaxShiftQty == 22       \* pieces of an entry handed to the shift splitter

-----------------------------------------------------------------------------
(* Generic helpers *)

Range(s) == {s[i] : i \in DOMAIN s}

Min(a, b) == IF a <= b THEN a ELSE b

Max(a, b) == IF a >= b THEN a ELSE b

RECURSIVE SumSeq(_)
SumSeq(s) == IF s = <<>> THEN 0 ELSE Head(s) + SumSeq(Tail(s))

\* All orderings of the set S as sequences.
Perms(S) ==
    {s \in [1..Cardinality(S) -> S] : \A i, j \in DOMAIN s : i # j => s[i] # s[j]}

\* The text "Линия n" (lower-cased) contains the text "линия k", or the other
\* way round: the decimal digits of one are a prefix of the other's.
DigitsPrefix(k, n) == k = n \/ (n >= 10 /\ n \div 10 = k)

\* str(i) in "Линия n", for i in 1..10 and n < 100.
DigitsIn(i, n) ==
    \/ i = n
    \/ i < 10 /\ n >= 10 /\ (n % 10 = i \/ n \div 10 = i)

\* Python's `None` for a product name, and for a missing job.
None == "None"

-----------------------------------------------------------------------------
(* TransitionResolver *)

\* First i in range(1, 11) with str(i) in line; 0 when there is none.
LineNum(ln) ==
    IF \E i \in 1..10 : DigitsIn(i, ln)
    THEN CHOOSE i \in 1..10 : DigitsIn(i, ln) /\ \A k \in 1..(i-1) : ~DigitsIn(k, ln)
    ELSE 0

\* First table of a cache whose key matches the line; <<>> when none does.
RECURSIVE TableForLine(_, _)
TableForLine(cache, ln) ==
    IF cache = <<>> THEN <<>>
    ELSE IF DigitsPrefix(Head(cache).key, ln) \/ DigitsPrefix(ln, Head(cache).key)
         THEN <<Head(cache).table>>
         ELSE TableForLine(Tail(cache), ln)

_get_volume_from_job(job) == job.volume

_get_product_name(job) == job.name

_check_eviction(ln, product_a, product_b) ==
    LET found == TableForLine(evictions, ln) IN
    IF found = <<>> \/ DOMAIN found[1] = {} THEN FALSE
    ELSE /\ product_a \in DOMAIN found[1]
         /\ product_b \in found[1][product_a]

\* The first norms row with an eviction event decides when the line number
\* is known; otherwise later rows are tried.
RECURSIVE EvictionTimeFrom(_, _)
EvictionTimeFrom(rows, ln) ==
    IF rows = <<>> THEN 30
    ELSE LET norm == Head(rows) IN
         IF norm.event = "VYT" /\ LineNum(ln) # 0
         THEN IF LineNum(ln) \in DOMAIN norm.cols /\ norm.cols[LineNum(ln)] # <<>>
              THEN norm.cols[LineNum(ln)][1]
              ELSE 30
         ELSE EvictionTimeFrom(Tail(rows), ln)

_get_eviction_time(ln) == EvictionTimeFrom(norms, ln)

\* First row satisfying the predicate and holding a parsable cell for the line.
RECURSIVE FormatTimeFrom(_, _, _)
FormatTimeFrom(rows, ln, canonical) ==
    IF rows = <<>> THEN <<>>
    ELSE LET norm == Head(rows)
             hit == IF canonical
                    THEN norm.event = "P" /\ "perenaladka" \in norm.category
                    ELSE "perenaladka" \in norm.category /\ "format" \in norm.category
         IN  IF hit /\ LineNum(ln) \in DOMAIN norm.cols /\ norm.cols[LineNum(ln)] # <<>>
             THEN norm.cols[LineNum(ln)]
             ELSE FormatTimeFrom(Tail(rows), ln, canonical)

_get_format_change_time(ln) ==
    IF LineNum(ln) = 0 THEN 120
    ELSE IF FormatTimeFrom(norms, ln, TRUE) # <<>> THEN FormatTimeFrom(norms, ln, TRUE)[1]
    ELSE IF FormatTimeFrom(norms, ln, FALSE) # <<>> THEN FormatTimeFrom(norms, ln, FALSE)[1]
    ELSE 120

EventOf(cip_type) ==
    CASE cip_type = "CIP1" -> "cip1"
      [] cip_type = "CIP2" -> "cip2"
      [] cip_type = "CIP3" -> "cip3"
      [] OTHER -> "cip"

\* The first norms row of the level's event with a parsable cell for the line.
RECURSIVE CipNormFrom(_, _, _)
CipNormFrom(rows, ln, cip_type) ==
    IF rows = <<>> THEN <<>>
    ELSE LET norm == Head(rows) IN
         IF /\ norm.event = EventOf(cip_type)
            /\ LineNum(ln) # 0
            /\ LineNum(ln) \in DOMAIN norm.cols
            /\ norm.cols[LineNum(ln)] # <<>>
         THEN norm.cols[LineNum(ln)]
         ELSE CipNormFrom(Tail(rows), ln, cip_type)

CipFallback(cip_type) ==
    CASE cip_type = "CIP1" -> 40
      [] cip_type = "CIP2" -> 240
      [] cip_type = "CIP3" -> 300
      [] OTHER -> 240

_get_cip_duration_for_type(ln, cip_type) ==
    IF CipNormFrom(norms, ln, cip_type) # <<>>
    THEN CipNormFrom(norms, ln, cip_type)[1]
    ELSE CipFallback(cip_type)

\* Variant for the sensitivity check of C14: a cascade that never looks at
\* the lists without the base mark and always answers the base level.
CipLevelBaseOnly(rules_for_line, product_a, product_b) ==
    IF product_a \notin DOMAIN rules_for_line \/ product_b = None THEN None
    ELSE LET rules_a == rules_for_line[product_a]
         IN  IF "baza" \in rules_a.cip1 THEN "CIP1"
             ELSE IF "baza" \in rules_a.cip2 THEN "CIP2"
             ELSE IF "baza" \in rules_a.cip3 THEN "CIP3"
             ELSE None

\* Steps 1-3 of the CIP cascade: the level for product_a -> product_b, or
\* None when the line has rules but none decides.
CipLevel(rules_for_line, product_a, product_b) ==
    IF product_a \notin DOMAIN rules_for_line THEN None
    ELSE LET rules_a == rules_for_line[product_a]
             base_level ==
                 IF "baza" \in rules_a.cip1 THEN "CIP1"
                 ELSE IF "baza" \in rules_a.cip2 THEN "CIP2"
                 ELSE IF "baza" \in rules_a.cip3 THEN "CIP3"
                 ELSE None
         IN  IF "baza" \notin rules_a.cip1 /\ product_b \in rules_a.cip1 THEN "CIP1"
             ELSE IF "baza" \notin rules_a.cip2 /\ product_b \in rules_a.cip2 THEN "CIP2"
             ELSE IF "baza" \notin rules_a.cip3 /\ product_b \in rules_a.cip3 THEN "CIP3"
             ELSE base_level

\* The format-change test of the cascade.
FormatChanges(job_a, job_b) ==
    LET volume_a == _get_volume_from_job(job_a)
        volume_b == _get_volume_from_job(job_b)
    IN  volume_a # "" /\ volume_b # "" /\ volume_a # volume_b

\* The eviction test of the cascade.
Evicts(ln, job_a, job_b) ==
    _check_eviction(ln, _get_product_name(job_a), _get_product_name(job_b))

\* The last stage of the cascade: the CIP level from the rules of the line
\* and its norm.
CipTransition(ln, job_a, job_b) ==
    LET found == TableForLine(rules, ln) IN
    IF found = <<>> \/ DOMAIN found[1] = {}
    THEN [time |-> 40, type |-> "DEFAULT"]
    ELSE LET cip_level == CipLevel(found[1], _get_product_name(job_a),
                                   _get_product_name(job_b))
         IN  IF cip_level = None
             THEN [time |-> 40, type |-> "DEFAULT"]
             ELSE IF CipNormFrom(norms, ln, cip_level) # <<>>
                  THEN [time |-> CipNormFrom(norms, ln, cip_level)[1],
                        type |-> cip_level]
                  ELSE [time |-> CipFallback(cip_level), type |-> cip_level]

\* Variant for the sensitivity check of C5: the eviction tested before the
\* format change.
EvictionBeforeFormat(ln, job_a, job_b) ==
    IF Evicts(ln, job_a, job_b)
    THEN [time |-> _get_eviction_time(ln), type |-> "VYT"]
    ELSE IF FormatChanges(job_a, job_b)
    THEN [time |-> _get_format_change_time(ln), type |-> "P"]
    ELSE CipTransition(ln, job_a, job_b)

_transition_time_estimate(ln, job_a, job_b) ==
    IF FormatChanges(job_a, job_b)
    THEN [time |-> _get_format_change_time(ln), type |-> "P"]
    ELSE IF Evicts(ln, job_a, job_b)
    THEN [time |-> _get_eviction_time(ln), type |-> "VYT"]
    ELSE CipTransition(ln, job_a, job_b)

-----------------------------------------------------------------------------
(* PriorityConstrainedSequencer *)

\* int(p) if p else 999, and 999 when int() raises.
PriorityOf(job) == IF job.priority = <<>> THEN 999 ELSE job.priority[1]

\* priority_key(a) < priority_key(b) for the jobs at indices a and b:
\* the tuples (user_priority, orig_idx, -qty) compared lexicographically.
KeyLess(a, b) ==
    \/ PriorityOf(jobs[a]) < PriorityOf(jobs[b])
    \/ /\ PriorityOf(jobs[a]) = PriorityOf(jobs[b])
       /\ \/ a < b
          \/ a = b /\ jobs[a].quantity > jobs[b].quantity

\* Variant for the sensitivity check of C2: a sort that ignores the priority
\* and keeps the submission order.
SubmissionOrder(js) == [k \in 1..Cardinality(js) |-> k]

\* sorted(jobs, key=priority_key): ascending keys, ties in input order.
_sort_by_priority(js) ==
    CHOOSE s \in Perms(js) :
        \A i, j \in DOMAIN s :
            i < j => \/ KeyLess(s[i], s[j])
                     \/ ~KeyLess(s[j], s[i]) /\ s[i] < s[j]

\* Position of job j in the list s.
Pos(s, j) == CHOOSE i \in DOMAIN s : s[i] = j

\* Variant for the sensitivity check of C4: a CP model without the priority
\* constraints.
NoPriorityConstraints(s) == Len(s) >= 0

\* model.Add(positions[i] < positions[j]) for priorities[i] < priorities[j].
PriorityConstraints(s) ==
    \A i, j \in Range(s) :
        (i # j /\ PriorityOf(jobs[i]) < PriorityOf(jobs[j])) => Pos(s, i) < Pos(s, j)

\* Variant for the sensitivity check of C3: a CP model without the locked-group
\* constraints.
NoLockedConstraints(s, fix) == Len(s) >= 0 /\ fix = fix

\* model.Add(positions[i] < positions[j]) inside a locked priority group.
LockedConstraints(s, fix) ==
    \A i, j \in Range(s) :
        (/\ i # j
         /\ PriorityOf(jobs[i]) = PriorityOf(jobs[j])
         /\ PriorityOf(jobs[i]) \in fix
         /\ i < j) => Pos(s, i) < Pos(s, j)

\* transition_time of the pair placed at positions k, k+1.
FollowCost(ln, s, k) == _transition_time_estimate(ln, jobs[s[k]], jobs[s[k+1]]).time

\* total_cost: the sum of cost_var over the pairs that follow each other.
TotalCost(ln, s) == SumSeq([k \in 1..(Len(s) - 1) |-> FollowCost(ln, s, k)])

\* Domains of cost_var (0..1500) and total_cost (0..100000).
CostDomains(ln, s) ==
    /\ \A k \in 1..(Len(s) - 1) : FollowCost(ln, s, k) \in 0..1500
    /\ TotalCost(ln, s) \in 0..100000

\* The assignments of `positions` satisfying every constraint of the CP model.
Feasible(ln, input, fix) ==
    {s \in Perms(Range(input)) :
        PriorityConstraints(s) /\ LockedConstraints(s, fix) /\ CostDomains(ln, s)}

\* What solver.Solve may report and the order _optimize_with_cp_sat then
\* returns: a feasible assignment (of minimum cost when OPTIMAL), or the
\* input list for every other status and for an exception.
Solutions(ln, input, fix, status) ==
    CASE status = "OPTIMAL" ->
            {s \in Feasible(ln, input, fix) :
                \A s2 \in Feasible(ln, input, fix) : TotalCost(ln, s) <= TotalCost(ln, s2)}
      [] status = "FEASIBLE" -> Feasible(ln, input, fix)
      [] status = "INFEASIBLE" -> IF Feasible(ln, input, fix) = {} THEN {input} ELSE {}
      [] OTHER -> {input}

SolverStatuses == {"OPTIMAL", "FEASIBLE", "INFEASIBLE", "UNKNOWN", "EXCEPTION"}

-----------------------------------------------------------------------------
(* Time stamps and the conflict probe *)

\* _fmt_dt_dmy_hm(base_dt + timedelta(minutes=m)).
Stamp(b, m) == [day |-> (b + m) \div 1440, hm |-> (b + m) % 1440]

CleaningTypes == {"CIP1", "CIP2", "CIP3", "CIP", "VYT", "P"}

\* Only group(3) and group(4) of the stamp are read: hour*60 + minute.
_check_cip_conflict(res, start_time, duration, ln) ==
    LET end_time == start_time + duration IN
    \E k \in DOMAIN res :
        /\ res[k].line = ln
        /\ res[k].type \in CleaningTypes
        /\ ~(end_time <= res[k].start.hm \/ start_time >= res[k].end.hm)

\* The result of a call that never returns.
Hang == -1

RECURSIVE FreeSlotFrom(_, _, _, _, _)
FreeSlotFrom(res, current_time, start_time, duration, ln) ==
    IF current_time >= 24 * 60 THEN start_time
    ELSE IF ~_check_cip_conflict(res, current_time, duration, ln) THEN current_time
    ELSE IF duration = 0 THEN Hang
    ELSE FreeSlotFrom(res, current_time + duration, start_time, duration, ln)

_find_next_free_slot(res, start_time, duration, ln) ==
    FreeSlotFrom(res, start_time, start_time, duration, ln)

-----------------------------------------------------------------------------
(* Python float arithmetic: IEEE-754 binary64, round to nearest, ties to    *)
(* even.  A positive double is [m, e]: m its 53 significand bits, most      *)
(* significant first (m[1] = 1), and e the exponent of m[1].                *)

MantissaBits == 53

\* 2^k mod d, by repeated squaring (d < 2^15).
RECURSIVE PowMod2(_, _)
PowMod2(k, d) ==
    IF k = 0 THEN 1 % d
    ELSE LET h == PowMod2(k \div 2, d)
         IN  (h * h * (IF k % 2 = 1 THEN 2 ELSE 1)) % d

\* (2^k * r) mod d: what is left of r/d below the bit of weight 2^-k.
Rho(r, d, k) == (PowMod2(k, d) * (r % d)) % d

\* Bit i of the binary expansion of r/d, for r/d in [1, 2); bit 1 has weight 1.
QuotientBit(r, d, i) == IF i = 1 THEN 1 ELSE IF 2 * Rho(r, d, i - 2) >= d THEN 1 ELSE 0

\* Bits lo..hi of r/d, most significant first.
RECURSIVE QuotientBits(_, _, _, _)
QuotientBits(r, d, lo, hi) ==
    IF lo = hi THEN <<QuotientBit(r, d, lo)>>
    ELSE LET mid == (lo + hi) \div 2
         IN  QuotientBits(r, d, lo, mid) \o QuotientBits(r, d, mid + 1, hi)

\* n zero bits.
RECURSIVE Zeros(_)
Zeros(n) ==
    IF n = 0 THEN <<>>
    ELSE IF n = 1 THEN <<0>>
    ELSE Zeros(n \div 2) \o Zeros(n - n \div 2)

\* Round a significand up by one unit in the last place.
RoundUp(x) ==
    IF \A i \in DOMAIN x.m : x.m[i] = 1
    THEN [m |-> <<1>> \o Zeros(Len(x.m) - 1), e |-> x.e + 1]
    ELSE LET k == CHOOSE i \in DOMAIN x.m :
                      x.m[i] = 0 /\ \A j \in DOMAIN x.m : j > i => x.m[j] = 1
         IN  [m |-> SubSeq(x.m, 1, k - 1) \o <<1>> \o Zeros(Len(x.m) - k), e |-> x.e]

\* Nearest-even rounding of [m, e] given what lies below the last place:
\* "above" half, exactly "half", or "below" half.
Rounded(x, below) ==
    IF below = "above" \/ (below = "half" /\ x.m[Len(x.m)] = 1) THEN RoundUp(x) ELSE x

\* Scale r/d into [1, 2): the triple <<r', d', e>> with r/d = (r'/d') * 2^e.
RECURSIVE Normalised(_, _, _)
Normalised(r, d, e) ==
    IF r >= 2 * d THEN Normalised(r, 2 * d, e + 1)
    ELSE IF r < d THEN Normalised(2 * r, d, e - 1)
    ELSE <<r, d, e>>

\* How twice the remainder `rest` of a division by d compares with one half
\* unit in the last place.
BelowQuotient(rest, d) ==
    IF rest > d THEN "above" ELSE IF rest = d THEN "half" ELSE "below"

\* The double n[1]/n[2] * 2^n[3], for n[1]/n[2] in [1, 2).
FloatOfNormalised(n) ==
    Rounded([m |-> QuotientBits(n[1], n[2], 1, MantissaBits), e |-> n[3]],
            BelowQuotient(2 * Rho(n[1], n[2], MantissaBits - 1), n[2]))

\* The double a / b, for integers a, b > 0.
FloatDiv(a, b) == FloatOfNormalised(Normalised(a, b, 0))

\* The value of a bit string, most significant bit first.
RECURSIVE BitsValue(_)
BitsValue(m) ==
    IF m = <<>> THEN 0
    ELSE IF Len(m) = 1 THEN m[1]
    ELSE BitsValue(SubSeq(m, 1, Len(m) \div 2)) * 2^(Len(m) - Len(m) \div 2)
         + BitsValue(SubSeq(m, Len(m) \div 2 + 1, Len(m)))

\* The n low bits of the natural number v, most significant first.
RECURSIVE LowBits(_, _)
LowBits(v, n) ==
    IF n = 0 THEN <<>>
    ELSE IF n = 1 THEN <<v % 2>>
    ELSE LowBits(v \div 2^(n \div 2), n - n \div 2) \o LowBits(v % 2^(n \div 2), n \div 2)

\* Number of binary digits of a natural number below 2^30 (0 for 0).
BitLength(v) == CHOOSE k \in 0..30 : v < 2^k /\ (k = 0 \/ v >= 2^(k - 1))

\* The 53-bit significand in base 2^13: the leading bit, then four digits.
DigitBits == 13

SigDigit(m, k) == BitsValue(SubSeq(m, 2 + DigitBits * (k - 1), 1 + DigitBits * k))

\* Carry out of digit k (4 is the lowest) of the product significand * q, q < 2^17.
CarryFrom(m, q, k) ==
    CASE k = 4 -> (SigDigit(m, 4) * q) \div 2^DigitBits
      [] k = 3 -> (SigDigit(m, 3) * q + (SigDigit(m, 4) * q) \div 2^DigitBits) \div 2^DigitBits
      [] k = 2 -> (SigDigit(m, 2) * q
                   + (SigDigit(m, 3) * q + (SigDigit(m, 4) * q) \div 2^DigitBits)
                         \div 2^DigitBits) \div 2^DigitBits
      [] k = 1 -> (SigDigit(m, 1) * q
                   + (SigDigit(m, 2) * q
                      + (SigDigit(m, 3) * q + (SigDigit(m, 4) * q) \div 2^DigitBits)
                            \div 2^DigitBits) \div 2^DigitBits) \div 2^DigitBits
      [] OTHER -> 0

\* Digit k of the product, and the part above the four digits.
ProductDigit(m, q, k) == (SigDigit(m, k) * q + CarryFrom(m, q, k + 1)) % 2^DigitBits

ProductTop(m, q) == m[1] * q + CarryFrom(m, q, 1)

\* The exact product significand * q as a bit string with leading bit 1.
TimesInt(m, q) ==
    LowBits(ProductTop(m, q), BitLength(ProductTop(m, q)))
    \o LowBits(ProductDigit(m, q, 1), DigitBits)
    \o LowBits(ProductDigit(m, q, 2), DigitBits)
    \o LowBits(ProductDigit(m, q, 3), DigitBits)
    \o LowBits(ProductDigit(m, q, 4), DigitBits)

\* How the bits dropped from a product compare with one half unit in the
\* last place.
BelowProduct(tail) ==
    IF tail = <<>> \/ tail[1] = 0 THEN "below"
    ELSE IF \E i \in 2..Len(tail) : tail[i] = 1 THEN "above"
    ELSE "half"

\* The double with exact value p * 2^(e - 52), for a bit string p of at
\* least 53 bits with p[1] = 1.
FloatOfBits(p, e) ==
    Rounded([m |-> SubSeq(p, 1, MantissaBits), e |-> e + Len(p) - MantissaBits],
            BelowProduct(SubSeq(p, MantissaBits + 1, Len(p))))

\* The double x * q, for a double x > 0 and an integer q > 0.
FloatTimesInt(x, q) == FloatOfBits(TimesInt(x.m, q), x.e)

\* int(x): the integer part of a double x > 0 below 2^53.
FloatToInt(x) == IF x.e < 0 THEN 0 ELSE BitsValue(SubSeq(x.m, 1, x.e + 1))

\* int((a / b) * q) as Python evaluates it on floats.
TruncatedShare(a, b, q) ==
    IF a <= 0 \/ q <= 0 THEN 0 ELSE FloatToInt(FloatTimesInt(FloatDiv(a, b), q))

\* int((60.0 * qty) / spd + 0.5): the quotient is within 2^-53 of the exact
\* value, which for integer qty and spd is a half-integer or at least
\* 1/(2*spd) away from one, so the result is the exact round-half-up.
RoundedMinutes(qty, spd) == (120 * qty + spd) \div (2 * spd)

-----------------------------------------------------------------------------
(* AutoCipSplitter: the decisions of one iteration of `while remaining_qty > 0` *)

NoIter ==
    [check |-> 0, buffer |-> FALSE, effective_threshold |-> 0,
     remainder_after_cip |-> 0, current_part_qty |-> 0, need_auto_cip |-> FALSE,
     total_before |-> 0, remaining_before |-> 0, emitted |-> FALSE,
     inserted |-> FALSE, skipped |-> FALSE]

\* Variant for the sensitivity check of C7: the buffer also applied when the
\* remainder equals min_remainder.
ThresholdPartInclusive(accumulated, threshold, remaining, min_remainder, clamp) ==
    LET remainder_after_cip == accumulated + remaining - threshold
        buffer == remainder_after_cip <= min_remainder
        effective_threshold ==
            IF buffer THEN threshold + (min_remainder - remainder_after_cip)
            ELSE threshold
        part == effective_threshold - accumulated
    IN  [buffer |-> buffer,
         effective_threshold |-> effective_threshold,
         remainder_after_cip |-> remainder_after_cip,
         current_part_qty |-> IF clamp /\ part <= 0 THEN Min(remaining, threshold)
                              ELSE part]

\* The buffer rule against one threshold: `accumulated` is the running total
\* compared with `threshold`; `clamp` is the `if current_part_qty <= 0` repair
\* that checks 1 and 2 carry and the new-product check does not.
ThresholdPart(accumulated, threshold, remaining, min_remainder, clamp) ==
    LET remainder_after_cip == accumulated + remaining - threshold
        buffer == remainder_after_cip < min_remainder
        effective_threshold ==
            IF buffer THEN threshold + (min_remainder - remainder_after_cip)
            ELSE threshold
        part == effective_threshold - accumulated
    IN  [buffer |-> buffer,
         effective_threshold |-> effective_threshold,
         remainder_after_cip |-> remainder_after_cip,
         current_part_qty |-> IF clamp /\ part <= 0 THEN Min(remaining, threshold)
                              ELSE part]

\* Checks 1 and 2 of the iteration: which threshold cuts the part, if any.
SplitDecision(job_name, prev, remaining, total, product_volume, product_name) ==
    LET whole == [check |-> 0, buffer |-> FALSE, effective_threshold |-> 0,
                  remainder_after_cip |-> 0, current_part_qty |-> remaining,
                  need_auto_cip |-> FALSE]
        cut(check, part) ==
            [check |-> check, buffer |-> part.buffer,
             effective_threshold |-> part.effective_threshold,
             remainder_after_cip |-> part.remainder_after_cip,
             current_part_qty |-> part.current_part_qty,
             need_auto_cip |-> TRUE]
    IN  IF ~cfg.enabled THEN whole
        ELSE IF prev # 0 /\ total + remaining > cfg.volume_threshold
        THEN cut(1, ThresholdPart(total, cfg.volume_threshold, remaining,
                                  cfg.min_remainder, TRUE))
        ELSE IF job_name = product_name
        THEN IF product_volume + remaining > cfg.product_threshold
             THEN cut(2, ThresholdPart(product_volume, cfg.product_threshold, remaining,
                                       cfg.min_remainder, TRUE))
             ELSE whole
        ELSE IF remaining > cfg.product_threshold
             THEN cut(3, ThresholdPart(0, cfg.product_threshold, remaining,
                                       cfg.min_remainder, FALSE))
             ELSE whole

\* The amount a job brings to the thresholds: pieces, or kilograms
\* (quantity * litres * density) in mass mode.
JobQty(job) ==
    IF cfg.mode = "massa" THEN job.quantity * job.litres * job.density
    ELSE job.quantity

\* The pieces shown for a part of current_part_qty units.
PartPieces(job, current_part_qty, remaining_pieces) ==
    IF cfg.mode = "massa" /\ job.quantity > 0
    THEN IF TruncatedShare(current_part_qty, JobQty(job), job.quantity) <= 0
         THEN Max(1, remaining_pieces)
         ELSE TruncatedShare(current_part_qty, JobQty(job), job.quantity)
    ELSE current_part_qty

\* part_dur of a part of `pieces` pieces.
PartDuration(job, pieces) ==
    IF pieces > 0
    THEN RoundedMinutes(pieces, IF job.speed <= 0 THEN 1000 ELSE job.speed)
    ELSE 0

\* _job_duration_minutes(job).
_job_duration_minutes(job) ==
    IF job.quantity <= 0 \/ job.speed <= 0 THEN 0
    ELSE RoundedMinutes(job.quantity, job.speed)

get_cip_priority(cip_type) ==
    CASE cip_type = "CIP3" -> 3
      [] cip_type = "CIP2" -> 2
      [] cip_type = "CIP1" -> 1
      [] OTHER -> 0

\* The precedence check: the mandatory transition from `job` to the next job
\* of the order supersedes the automatic cleaning.
SkipAutoCip(ln, ord, k) ==
    /\ k + 1 <= Len(ord)
    /\ LET required == _transition_time_estimate(ln, jobs[ord[k]], jobs[ord[k + 1]]).type
       IN  /\ get_cip_priority(required) >= get_cip_priority(cfg.cip_type)
           /\ get_cip_priority(required) > 0

\* Entries of the schedule.
ProductionEntry(ln, b, job, part, pieces, start, dur) ==
    [line |-> ln, job_id |-> [prefix |-> "", job |-> job, part |-> part],
     type |-> "JOB", duration |-> dur, qty |-> <<pieces>>,
     start |-> Stamp(b, start), end |-> Stamp(b, start + dur)]

TransitionEntry(ln, b, job, type, start, dur) ==
    [line |-> ln,
     job_id |-> [prefix |-> IF type \in {"VYT", "P"} THEN type ELSE "CIP",
                 job |-> job, part |-> 1],
     type |-> type, duration |-> dur, qty |-> <<>>,
     start |-> Stamp(b, start), end |-> Stamp(b, start + dur)]

\* Variant for the sensitivity check of C28: an automatic cleaning whose
\* job_id does not start with AUTO-CIP.
UnmarkedCipRecord(ln, cip_type, b, start, prev, next) ==
    [line |-> ln,
     job_id |-> [prefix |-> "CIP", job |-> IF next # 0 THEN next ELSE prev,
                 part |-> 1],
     type |-> cip_type, duration |-> _get_cip_duration_for_type(ln, cip_type),
     qty |-> <<>>,
     start |-> Stamp(b, start),
     end |-> Stamp(b, start + _get_cip_duration_for_type(ln, cip_type))]

_create_auto_cip_record(ln, cip_type, b, start, prev, next) ==
    [line |-> ln,
     job_id |-> [prefix |-> "AUTO-CIP", job |-> IF next # 0 THEN next ELSE prev,
                 part |-> 1],
     type |-> cip_type, duration |-> _get_cip_duration_for_type(ln, cip_type),
     qty |-> <<>>,
     start |-> Stamp(b, start),
     end |-> Stamp(b, start + _get_cip_duration_for_type(ln, cip_type))]

-----------------------------------------------------------------------------
(* ScheduleBuilder: _build_schedule_for_line as a state machine.            *)
(* pc: "sort" -> ("optimize" ->) "job" -> "split"* -> "after" -> "job" ...  *)
(* -> "done"; "hang" is a call of _find_next_free_slot that never returns.  *)

\* jobs = _sort_by_priority(jobs), after _original_index has been set.
Sort ==
    /\ pc = "sort"
    /\ sorted' = _sort_by_priority(DOMAIN jobs)
    /\ order' = sorted'
    /\ pc' = IF use_cp_sat THEN "optimize" ELSE "job"
    /\ UNCHANGED <<solver, idx, t, results, prev_job, total_volume_since_cip,
                   current_product_volume, current_product_name,
                   last_auto_cip_index, remaining_qty, remaining_qty_pieces,
                   part_number, iter>>
    /\ UNCHANGED <<inputVars, tableVars, call, ret>>

\* jobs = _optimize_with_cp_sat(line, jobs, fix_priorities).
Optimize ==
    /\ pc = "optimize"
    /\ IF Len(order) < 2
       THEN order' = order /\ solver' = "none"
       ELSE \E status \in SolverStatuses :
                \E s \in Solutions(line, order, fix_priorities, status) :
                    order' = s /\ solver' = status
    /\ pc' = "job"
    /\ UNCHANGED <<sorted, idx, t, results, prev_job, total_volume_since_cip,
                   current_product_volume, current_product_name,
                   last_auto_cip_index, remaining_qty, remaining_qty_pieces,
                   part_number, iter>>
    /\ UNCHANGED <<inputVars, tableVars, call, ret>>

\* Head of the body of `for idx, job in enumerate(jobs)`: the mandatory
\* transition before the job, then the set-up of the split loop.
BeginJob ==
    /\ pc = "job"
    /\ LET job == order[idx]
           skip_normal_transition ==
               results # <<>> /\ results[Len(results)].job_id.prefix = "AUTO-CIP"
           tr == _transition_time_estimate(line, jobs[prev_job], jobs[job])
           add == prev_job # 0 /\ ~skip_normal_transition /\ tr.time > 0
           reset == add /\ tr.type # "VYT"
       IN  /\ results' = IF add
                         THEN Append(results,
                                     TransitionEntry(line, base, job, tr.type, t, tr.time))
                         ELSE results
           /\ t' = IF add THEN t + tr.time ELSE t
           /\ total_volume_since_cip' = IF reset THEN 0 ELSE total_volume_since_cip
           /\ current_product_volume' = IF reset THEN 0 ELSE current_product_volume
           /\ current_product_name' = IF reset THEN None ELSE current_product_name
           /\ last_auto_cip_index' = IF reset THEN Len(results) ELSE last_auto_cip_index
           /\ remaining_qty' = JobQty(jobs[job])
           /\ remaining_qty_pieces' = jobs[job].quantity
           /\ part_number' = 1
           /\ pc' = IF JobQty(jobs[job]) > 0 THEN "split" ELSE "after"
    /\ iter' = NoIter
    /\ UNCHANGED <<sorted, order, solver, idx, prev_job>>
    /\ UNCHANGED <<inputVars, tableVars, call, ret>>

\* One iteration of `while remaining_qty > 0`.
SplitStep ==
    /\ pc = "split"
    /\ LET job == order[idx]
           job_name == _get_product_name(jobs[job])
           d == SplitDecision(job_name, prev_job, remaining_qty, total_volume_since_cip,
                              current_product_volume, current_product_name)
           current_part_qty == d.current_part_qty
           pieces == PartPieces(jobs[job], current_part_qty, remaining_qty_pieces)
           part_dur == PartDuration(jobs[job], pieces)
           emit == current_part_qty > 0
           res1 == IF emit
                   THEN Append(results, ProductionEntry(line, base, job, part_number,
                                                        pieces, t, part_dur))
                   ELSE results
           total1 == IF emit THEN total_volume_since_cip + current_part_qty
                     ELSE total_volume_since_cip
           volume1 == IF ~emit THEN current_product_volume
                      ELSE IF job_name = current_product_name
                           THEN current_product_volume + current_part_qty
                           ELSE current_part_qty
           name1 == IF emit THEN job_name ELSE current_product_name
           t1 == IF emit THEN t + part_dur ELSE t
           rem1 == IF emit THEN remaining_qty - current_part_qty ELSE remaining_qty
           prev1 == IF emit THEN job ELSE prev_job
           consider == /\ d.need_auto_cip
                       /\ rem1 > 0
                       /\ last_auto_cip_index # Len(res1) - 1
           skip == consider /\ SkipAutoCip(line, order, idx)
           insert == consider /\ ~skip
           auto_cip_duration == _get_cip_duration_for_type(line, cfg.cip_type)
           free_slot_time == _find_next_free_slot(res1, t1, auto_cip_duration, line)
           hangs == insert /\ free_slot_time = Hang
           placed == insert /\ ~hangs
           need_auto_cip == d.need_auto_cip /\ ~skip
       IN  /\ results' = IF placed
                         THEN Append(res1, _create_auto_cip_record(
                                               line, cfg.cip_type, base, free_slot_time,
                                               prev1, job))
                         ELSE res1
           /\ t' = IF placed THEN free_slot_time + auto_cip_duration ELSE t1
           /\ total_volume_since_cip' = IF placed THEN 0 ELSE total1
           /\ current_product_volume' = IF placed THEN 0 ELSE volume1
           /\ current_product_name' = IF placed THEN None ELSE name1
           /\ last_auto_cip_index' = IF placed THEN Len(res1) ELSE last_auto_cip_index
           /\ remaining_qty' = rem1
           /\ remaining_qty_pieces' = IF emit THEN remaining_qty_pieces - pieces
                                      ELSE remaining_qty_pieces
           /\ part_number' = IF emit THEN part_number + 1 ELSE part_number
           /\ prev_job' = prev1
           /\ iter' = [check |-> d.check, buffer |-> d.buffer,
                       effective_threshold |-> d.effective_threshold,
                       remainder_after_cip |-> d.remainder_after_cip,
                       current_part_qty |-> current_part_qty,
                       need_auto_cip |-> need_auto_cip,
                       total_before |-> total_volume_since_cip,
                       remaining_before |-> remaining_qty,
                       emitted |-> emit, inserted |-> placed, skipped |-> skip]
           /\ pc' = IF hangs THEN "hang"
                    ELSE IF ~need_auto_cip THEN "after"
                    ELSE IF rem1 > 0 THEN "split"
                    ELSE "after"
    /\ UNCHANGED <<sorted, order, solver, idx>>
    /\ UNCHANGED <<inputVars, tableVars, call, ret>>

\* The check after the split loop, and the step to the next job.
AfterJob ==
    /\ pc = "after"
    /\ LET due == /\ cfg.enabled
                  /\ remaining_qty = 0
                  /\ \/ total_volume_since_cip >= cfg.volume_threshold
                     \/ current_product_volume >= cfg.product_threshold
           skip_auto_cip == due /\ SkipAutoCip(line, order, idx)
           insert == due /\ ~skip_auto_cip
           auto_cip_duration == _get_cip_duration_for_type(line, cfg.cip_type)
           free_slot_time == _find_next_free_slot(results, t, auto_cip_duration, line)
           hangs == insert /\ free_slot_time = Hang
           placed == insert /\ ~hangs
       IN  /\ results' = IF placed
                         THEN Append(results, _create_auto_cip_record(
                                                  line, cfg.cip_type, base,
                                                  free_slot_time, prev_job, 0))
                         ELSE results
           /\ t' = IF placed THEN free_slot_time + auto_cip_duration ELSE t
           /\ total_volume_since_cip' = IF placed THEN 0 ELSE total_volume_since_cip
           /\ current_product_volume' = IF placed THEN 0 ELSE current_product_volume
           /\ current_product_name' = IF placed THEN None ELSE current_product_name
           /\ last_auto_cip_index' = IF placed THEN Len(results) ELSE last_auto_cip_index
           /\ idx' = IF hangs THEN idx ELSE idx + 1
           /\ pc' = IF hangs THEN "hang"
                    ELSE IF idx < Len(order) THEN "job" ELSE "done"
    /\ UNCHANGED <<sorted, order, solver, prev_job, remaining_qty,
                   remaining_qty_pieces, part_number, iter>>
    /\ UNCHANGED <<inputVars, tableVars, call, ret>>

-----------------------------------------------------------------------------
(* Inputs of a build *)

Products == {"a", "b"}

Volumes == {"v1", "v2"}

\* The two sample set-ups.  Shift start 00:00, CIP1 norm of 1 minute, 40 pieces
\* per hour (1, 2, 3 pieces take 2, 3, 5 minutes); and shift start 00:01, CIP1
\* norm of 0 minutes, 1000 pieces per hour (a few pieces take 0 minutes).
Setups ==
    {[base |-> 0, cip1 |-> 1, speed |-> 40],
     [base |-> 1, cip1 |-> 0, speed |-> 1000]}

Priorities == {<<>>, <<1>>, <<2>>}

Job(n, v, q, s, p) ==
    [name |-> n, volume |-> v, quantity |-> q, speed |-> s, priority |-> p,
     litres |-> 1, density |-> 1]

\* evictions.json of the sample plant: on line 1, product a is evicted by b.
SampleEvictions == <<[key |-> 1, table |-> ("a" :> {"b"})]>>

\* cip_rules.json of the sample plant, line 1: after a the base level is CIP1
\* and a follower a needs CIP3; after b the base level is CIP2 and a follower
\* a needs only CIP1.
SampleRules ==
    <<[key |-> 1,
       table |-> ("a" :> [cip1 |-> {"baza"}, cip2 |-> {}, cip3 |-> {"a"}]) @@
                 ("b" :> [cip1 |-> {"a"}, cip2 |-> {"baza"}, cip3 |-> {}])]>>

\* norms_data.json of the sample plant, minutes on line 1; c1 is the CIP1 cell.
SampleNorms(c1) ==
    <<[event |-> "cip1", category |-> {"cip"}, cols |-> (1 :> <<c1>>)],
      [event |-> "cip2", category |-> {"cip"}, cols |-> (1 :> <<2>>)],
      [event |-> "cip3", category |-> {"cip"}, cols |-> (1 :> <<3>>)],
      [event |-> "VYT", category |-> {"vytesnenie"}, cols |-> (1 :> <<1>>)],
      [event |-> "P", category |-> {"perenaladka"}, cols |-> (1 :> <<2>>)]>>

DisabledConfig ==
    [enabled |-> FALSE, volume_threshold |-> 50000, product_threshold |-> 30000,
     min_remainder |-> 2000, cip_type |-> "CIP2", mode |-> "shtuki"]

EnabledConfigs ==
    [enabled : {TRUE}, volume_threshold : 1..MaxThreshold,
     product_threshold : 1..MaxThreshold, min_remainder : 0..MaxRemainder,
     cip_type : {"CIP1", "CIP2"}, mode : {"shtuki"}]

\* Plans that exercise the splitter: one or two jobs without a priority.
SplitPlans(s) ==
    {<<Job(n1, "v1", q1, s, <<>>)>> : n1 \in Products, q1 \in 1..MaxQty} \cup
    {<<Job(n1, "v1", q1, s, <<>>), Job(n2, v2, q2, s, <<>>)>> :
         n1 \in Products, q1 \in 1..MaxQty,
         n2 \in Products, v2 \in Volumes, q2 \in 1..MaxQty}

\* Plans that exercise the sequencer: up to MaxJobs jobs of one piece and
\* one format.
OrderPlans(s) ==
    UNION {[1..n -> {Job(nm, "v1", 1, s, p) : nm \in Products, p \in Priorities}] :
           n \in 1..MaxJobs}

\* The configuration the sequencer plans are also built with: a cleaning
\* after every piece.
EveryPieceConfig ==
    [enabled |-> TRUE, volume_threshold |-> 1, product_threshold |-> 1,
     min_remainder |-> 0, cip_type |-> "CIP2", mode |-> "shtuki"]

\* The buffer example of the documentation: thresholds of 50000 and a
\* minimum remainder of 2000; 49500 pieces of a, then 1000 pieces of b, which
\* evicts a (an eviction keeps the counters).
ExamplePlan(s) ==
    <<Job("a", "v1", 49500, s, <<>>), Job("b", "v1", 1000, s, <<>>)>>

ExampleConfig ==
    [enabled |-> TRUE, volume_threshold |-> 50000, product_threshold |-> 50000,
     min_remainder |-> 2000, cip_type |-> "CIP2", mode |-> "shtuki"]

\* The locals of _build_schedule_for_line before its first statement.
BuildLocals ==
    /\ sorted = <<>>
    /\ order = <<>>
    /\ solver = "none"
    /\ idx = 1
    /\ t = 0
    /\ results = <<>>
    /\ prev_job = 0
    /\ total_volume_since_cip = 0
    /\ current_product_volume = 0
    /\ current_product_name = None
    /\ last_auto_cip_index = -1
    /\ remaining_qty = 0
    /\ remaining_qty_pieces = 0
    /\ part_number = 1
    /\ iter = NoIter

\* The state on entry to _build_schedule_for_line.
BuildEntry ==
    /\ pc = "sort"
    /\ BuildLocals
    /\ call = <<>>
    /\ ret = <<>>

Init ==
    /\ line = 1
    /\ evictions = SampleEvictions
    /\ rules = SampleRules
    /\ \E setup \in Setups :
          /\ base = setup.base
          /\ norms = SampleNorms(setup.cip1)
          /\ \/ /\ jobs \in SplitPlans(setup.speed)
                /\ cfg \in EnabledConfigs \cup {DisabledConfig}
                /\ use_cp_sat = FALSE
                /\ fix_priorities = {}
             \/ /\ jobs \in OrderPlans(setup.speed)
                /\ cfg \in {DisabledConfig, EveryPieceConfig}
                /\ use_cp_sat \in BOOLEAN
                /\ fix_priorities \in {{}, {1}, {999}}
             \/ /\ jobs = ExamplePlan(setup.speed)
                /\ cfg = ExampleConfig
                /\ use_cp_sat = FALSE
                /\ fix_priorities = {}
    /\ BuildEntry

Next == Sort \/ Optimize \/ BeginJob \/ SplitStep \/ AfterJob

Spec == Init /\ [][Next]_vars

-----------------------------------------------------------------------------
(* Observations on the entry list *)

\* The production entries of job j, in the order of the list.
PartsOf(j) == SelectSeq(results, LAMBDA e : e.type = "JOB" /\ e.job_id.job = j)

\* The pieces of job j the list shows.
EmittedQty(j) == SumSeq([k \in DOMAIN PartsOf(j) |-> PartsOf(j)[k].qty[1]])

\* The minutes of production of job j the list shows.
EmittedMinutes(j) == SumSeq([k \in DOMAIN PartsOf(j) |-> PartsOf(j)[k].duration])

\* The build of the line has returned.
Built == pc = "done"

-----------------------------------------------------------------------------
(* C1: quantity conservation in the per-line build *)

\* C1: with automatic cleaning enabled in pieces mode, the qty values of the
\* production entries emitted for a job sum exactly to the job's quantity.
C1_QuantityConservation ==
    (Built /\ cfg.enabled /\ cfg.mode = "shtuki") =>
        \A j \in DOMAIN jobs : EmittedQty(j) = jobs[j].quantity

-----------------------------------------------------------------------------
(* C2: priority monotonicity *)

\* The priority of job j as the plan states it: 999 when missing or unparsable.
Rank(j) == IF jobs[j].priority = <<>> THEN 999 ELSE jobs[j].priority[1]

\* Minutes since the midnight of day 0 of a stamp.
StampMinutes(s) == s.day * 1440 + s.hm

\* Index in the entry list, and start, of the first production entry of job j.
FirstIndex(j) ==
    CHOOSE k \in DOMAIN results :
        /\ results[k].type = "JOB" /\ results[k].job_id.job = j
        /\ \A m \in 1..(k - 1) : ~(results[m].type = "JOB" /\ results[m].job_id.job = j)

FirstStart(j) == StampMinutes(results[FirstIndex(j)].start)

Scheduled(j) == PartsOf(j) # <<>>

\* C2 as stated: for scheduled jobs i, j with priority(i) < priority(j), the
\* first production entry of i starts strictly before the first one of j.
C2_StrictlyEarlierStart ==
    Built =>
        \A i, j \in DOMAIN jobs :
            (Scheduled(i) /\ Scheduled(j) /\ Rank(i) < Rank(j))
                => FirstStart(i) < FirstStart(j)

\* C2 amended: for scheduled jobs i, j with priority(i) < priority(j), the
\* first production entry of i precedes that of j in the entry list and
\* starts no later; it starts strictly earlier when it lasts a minute or more.
C2_PriorityOrder ==
    Built =>
        \A i, j \in DOMAIN jobs :
            (Scheduled(i) /\ Scheduled(j) /\ Rank(i) < Rank(j))
                => /\ FirstIndex(i) < FirstIndex(j)
                   /\ FirstStart(i) <= FirstStart(j)
                   /\ results[FirstIndex(i)].duration > 0
                          => FirstStart(i) < FirstStart(j)

\* C2 witness: the optimizer was used and a job submitted later, with the
\* smaller priority number, starts first.
C2_Witness ==
    /\ Built
    /\ solver = "OPTIMAL"
    /\ \E i, j \in DOMAIN jobs :
          /\ j < i /\ Rank(i) < Rank(j)
          /\ Scheduled(i) /\ Scheduled(j)
          /\ FirstStart(i) < FirstStart(j)

-----------------------------------------------------------------------------
(* C3: locked-order preservation; C4: hard constraints or fallback *)

\* Job i stands before job j in the list s.
Before(s, i, j) == \E a, b \in DOMAIN s : a < b /\ s[a] = i /\ s[b] = j

\* _optimize_with_cp_sat has been called and has returned.
Optimized == solver # "none"

\* C3: two jobs with the same locked priority keep the relative order of
\* their submission index in the order _optimize_with_cp_sat returns.
C3_LockedOrderPreserved ==
    Optimized =>
        \A i, j \in DOMAIN jobs :
            (i < j /\ Rank(i) = Rank(j) /\ Rank(i) \in fix_priorities)
                => Before(order, i, j)

\* C3 witness: the solver reports an optimum, two jobs share a locked
\* priority, and an order of smaller transition cost exists.
C3_Witness ==
    /\ solver = "OPTIMAL"
    /\ \E i, j \in DOMAIN jobs :
          i < j /\ Rank(i) = Rank(j) /\ Rank(i) \in fix_priorities
    /\ \E s \in Perms(DOMAIN jobs) : TotalCost(line, s) < TotalCost(line, order)

\* The list s holds every job of the plan exactly once.
IsPermutation(s) ==
    /\ Len(s) = Len(jobs)
    /\ \A j \in DOMAIN jobs : \E k \in DOMAIN s : s[k] = j
    /\ \A a, b \in DOMAIN s : a # b => s[a] # s[b]

\* The hard constraints: strict priority order and locked-group order.
RespectsHardConstraints(s) ==
    \A i, j \in DOMAIN jobs :
        /\ Rank(i) < Rank(j) => Before(s, i, j)
        /\ (i < j /\ Rank(i) = Rank(j) /\ Rank(i) \in fix_priorities) => Before(s, i, j)

\* The baseline: ascending (priority, original index).
IsBaseline(s) ==
    \A a, b \in DOMAIN s :
        a < b => \/ Rank(s[a]) < Rank(s[b])
                 \/ Rank(s[a]) = Rank(s[b]) /\ s[a] < s[b]

\* C4: whatever the solver reports, the returned order is a permutation of
\* the input; with OPTIMAL or FEASIBLE it satisfies the hard constraints, and
\* with any other outcome it is the baseline order unchanged.
C4_HardConstraintsOrFallback ==
    Optimized =>
        /\ IsPermutation(order)
        /\ solver \in {"OPTIMAL", "FEASIBLE"} => RespectsHardConstraints(order)
        /\ solver \notin {"OPTIMAL", "FEASIBLE"} => IsBaseline(order) /\ order = sorted

\* C4 witness: the solver stopped with a feasible order that differs from
\* the baseline.
C4_Witness ==
    /\ solver = "FEASIBLE"
    /\ order # sorted
    /\ IsPermutation(order)

-----------------------------------------------------------------------------
(* C6, C7: the buffer rule of the total-volume threshold *)

\* The split loop has just run an iteration in which check 1 (the total
\* volume) cut the part.
TotalVolumeCut == pc \in {"split", "after", "hang"} /\ iter.check = 1

\* The job whose split loop is running, and its last production entry.
CurrentJob == order[idx]

LastPart == PartsOf(CurrentJob)[Len(PartsOf(CurrentJob))]

\* C6: when the total plus the job's remaining amount exceeds volume_threshold
\* by less than min_remainder and the buffered boundary lies at or beyond the
\* end of the job, the job is emitted as one production entry of exactly its
\* own quantity and no automatic cleaning is inserted inside the job.
C6_BufferSuppression ==
    (/\ TotalVolumeCut
     /\ iter.remaining_before = jobs[CurrentJob].quantity
     /\ iter.total_before + iter.remaining_before - cfg.volume_threshold < cfg.min_remainder
     /\ cfg.volume_threshold + cfg.min_remainder
            - (iter.total_before + iter.remaining_before - cfg.volume_threshold)
          >= iter.total_before + iter.remaining_before)
        => /\ Len(PartsOf(CurrentJob)) = 1
           /\ LastPart.qty = <<jobs[CurrentJob].quantity>>
           /\ results[Len(results)] = LastPart

\* C7: when check 1 cuts a part, remainder_after_cip = total + remaining -
\* volume_threshold is positive; the buffer is applied exactly when it is
\* below min_remainder, and then the effective threshold is volume_threshold
\* + (min_remainder - remainder_after_cip); otherwise the boundary is
\* volume_threshold itself; a part that starts below the boundary ends on it.
C7_BufferActivation ==
    TotalVolumeCut =>
        LET remainder == iter.total_before + iter.remaining_before - cfg.volume_threshold
            boundary == IF remainder < cfg.min_remainder
                        THEN cfg.volume_threshold + (cfg.min_remainder - remainder)
                        ELSE cfg.volume_threshold
        IN  /\ remainder > 0
            /\ iter.buffer <=> remainder < cfg.min_remainder
            /\ iter.effective_threshold = boundary
            /\ iter.total_before < boundary
                   => LastPart.qty = <<boundary - iter.total_before>>

\* C7 witness: check 1 cut a part with the remainder equal to min_remainder,
\* so the buffer stayed off and the part ends on volume_threshold.
C7_Witness ==
    /\ TotalVolumeCut
    /\ iter.total_before + iter.remaining_before - cfg.volume_threshold = cfg.min_remainder
    /\ cfg.min_remainder > 0
    /\ ~iter.buffer
    /\ iter.total_before + LastPart.qty[1] = cfg.volume_threshold

-----------------------------------------------------------------------------
(* C10: duration conservation in the per-line build *)

\* Round-half-up of 60 * q / spd minutes.
HalfUpMinutes(q, spd) == (120 * q + spd) \div (2 * spd)

\* C10: the durations of the parts of a job that was cut into several
\* production parts sum to the duration of the unsplit job.
C10_DurationConservation ==
    Built =>
        \A j \in DOMAIN jobs :
            Len(PartsOf(j)) > 1
                => EmittedMinutes(j) = HalfUpMinutes(jobs[j].quantity, jobs[j].speed)

-----------------------------------------------------------------------------
(* The resolver on its own: _transition_time_estimate over varied tables *)

\* The state of a process that calls one function: nothing built, no call yet.
FunctionEntry(p) ==
    /\ pc = p
    /\ BuildLocals
    /\ jobs = <<>>
    /\ cfg = DisabledConfig
    /\ use_cp_sat = FALSE
    /\ fix_priorities = {}
    /\ base = 0
    /\ call = <<>>
    /\ ret = <<>>

ResolveLines == {1, 2}

\* Eviction tables: none, a evicted by b, every pair among a and b.
EvictionTables ==
    {<<>>, ("a" :> {"b"}), ("a" :> {"a", "b"}) @@ ("b" :> {"a", "b"})}

EvictionCaches ==
    {<<>>} \cup
    {<<[key |-> k, table |-> tb]>> : k \in ResolveLines, tb \in EvictionTables}

\* Rule tables: none; the sample; a base level only for b, and c unknown; a
\* list for a without any base mark.
RuleTables ==
    {<<>>, SampleRules[1].table,
     ("b" :> [cip1 |-> {}, cip2 |-> {}, cip3 |-> {"baza"}]),
     ("a" :> [cip1 |-> {}, cip2 |-> {"b"}, cip3 |-> {}])}

RuleCaches ==
    {<<>>} \cup {<<[key |-> k, table |-> tb]>> : k \in ResolveLines, tb \in RuleTables}

\* Norm tables: none; the sample; a CIP1 cell that int() rejects.
NormTables ==
    {<<>>, SampleNorms(1),
     <<[event |-> "cip1", category |-> {"cip"}, cols |-> (1 :> <<>>)],
       [event |-> "P", category |-> {"perenaladka", "format"}, cols |-> (2 :> <<7>>)]>>}

ResolveJobs ==
    {Job(n, v, 1, 1000, <<>>) : n \in {"a", "b", "c"}, v \in {"", "v1", "v2"}}

InitResolve ==
    /\ line \in ResolveLines
    /\ evictions \in EvictionCaches
    /\ rules \in RuleCaches
    /\ norms \in NormTables
    /\ FunctionEntry("resolve")

\* One call of _transition_time_estimate(line, job_a, job_b).
Resolve ==
    /\ pc = "resolve"
    /\ \E job_a, job_b \in ResolveJobs :
          /\ call' = <<job_a, job_b>>
          /\ ret' = _transition_time_estimate(line, job_a, job_b)
    /\ pc' = "resolved"
    /\ UNCHANGED <<sorted, order, solver, idx, t, results, prev_job,
                   total_volume_since_cip, current_product_volume,
                   current_product_name, last_auto_cip_index, remaining_qty,
                   remaining_qty_pieces, part_number, iter>>
    /\ UNCHANGED <<inputVars, tableVars>>

SpecResolve == InitResolve /\ [][Resolve]_vars

\* Both formats are stated and they differ.
FormatsDiffer(job_a, job_b) ==
    job_a.volume # "" /\ job_b.volume # "" /\ job_a.volume # job_b.volume

\* The eviction table of the line holds the rule from x to y.
EvictionRuleMatches(ln, x, y) ==
    \E k \in DOMAIN evictions :
        /\ evictions[k].key = ln
        /\ x \in DOMAIN evictions[k].table
        /\ y \in evictions[k].table[x]

\* The rules of the line know the predecessor x.
CipRuleExists(ln, x) ==
    \E k \in DOMAIN rules : rules[k].key = ln /\ x \in DOMAIN rules[k].table

\* C5: the resolver returns a format change whenever both volumes are
\* non-empty and differ, whatever the eviction and CIP tables say; otherwise
\* it returns an eviction whenever an eviction rule matches the pair,
\* whatever CIP rule exists for the predecessor.
C5_TransitionPrecedence ==
    pc = "resolved" =>
        /\ FormatsDiffer(call[1], call[2])
               => ret = [time |-> _get_format_change_time(line), type |-> "P"]
        /\ (~FormatsDiffer(call[1], call[2])
              /\ EvictionRuleMatches(line, call[1].name, call[2].name))
               => ret = [time |-> _get_eviction_time(line), type |-> "VYT"]

\* C5 witness: the formats differ, an eviction rule matches the pair and a
\* CIP rule exists for the predecessor; the resolver answers format change.
C5_Witness ==
    /\ pc = "resolved"
    /\ FormatsDiffer(call[1], call[2])
    /\ EvictionRuleMatches(line, call[1].name, call[2].name)
    /\ CipRuleExists(line, call[1].name)
    /\ ret.type = "P"

-----------------------------------------------------------------------------
(* The conflict probe on its own *)

\* A record as the builder writes it: on line ln, of the given type, from
\* minute `start` after the midnight of day 0, for `dur` minutes.
ProbeRecord(ln, type, start, dur) ==
    [line |-> ln, type |-> type, duration |-> dur,
     start |-> Stamp(0, start), end |-> Stamp(0, start + dur)]

\* 10:00 and 23:30 of day 0, 10:00 of day 1.
ProbeRecords ==
    {ProbeRecord(ln, type, start, dur) :
        ln \in {1, 2}, type \in {"CIP2", "VYT", "JOB"},
        start \in {600, 1410, 2040}, dur \in {30, 60}}

\* Lists of no record, one record, and one record before a cleaning of
\* line 1 at 10:00.
ProbeLists ==
    {<<>>} \cup {<<r>> : r \in ProbeRecords}
           \cup {<<r, ProbeRecord(1, "CIP2", 600, 30)>> : r \in ProbeRecords}

\* Windows around 10:00 and before midnight.
ProbeStarts == {540, 570, 600, 630, 660, 1420}

ProbeDurations == {30, 60}

InitProbe ==
    /\ line = 1
    /\ evictions = SampleEvictions
    /\ rules = SampleRules
    /\ norms = SampleNorms(1)
    /\ FunctionEntry("probe")

\* One call of _check_cip_conflict(results, start_time, duration, line).
Probe ==
    /\ pc = "probe"
    /\ \E res \in ProbeLists, start_time \in ProbeStarts, duration \in ProbeDurations :
          /\ call' = [results |-> res, start_time |-> start_time,
                      duration |-> duration, line |-> line]
          /\ ret' = _check_cip_conflict(res, start_time, duration, line)
    /\ pc' = "probed"
    /\ UNCHANGED <<sorted, order, solver, idx, t, results, prev_job,
                   total_volume_since_cip, current_product_volume,
                   current_product_name, last_auto_cip_index, remaining_qty,
                   remaining_qty_pieces, part_number, iter>>
    /\ UNCHANGED <<inputVars, tableVars>>

SpecProbe == InitProbe /\ [][Probe]_vars

\* The record is a cleaning or transition record of line ln whose [start, end)
\* meets the window [start_time, start_time + duration).
Intersects(record, ln, start_time, duration) ==
    /\ record.line = ln
    /\ record.type \in {"CIP1", "CIP2", "CIP3", "CIP", "VYT", "P"}
    /\ StampMinutes(record.start) < start_time + duration
    /\ start_time < StampMinutes(record.end)

\* C8: _check_cip_conflict returns True if and only if the list holds a
\* cleaning or transition record of the same line whose [start, end)
\* intersects [start, start + duration).
C8_ConflictIffIntersects ==
    pc = "probed" =>
        (ret <=> \E k \in DOMAIN call.results :
                     Intersects(call.results[k], call.line, call.start_time, call.duration))

-----------------------------------------------------------------------------
(* ShiftSplitter: _split_jobs_across_shifts *)

\* The instant a stamp denotes, in minutes since the midnight of day 0, and
\* the stamp of an instant.
StampOf(m) == [day |-> m \div 1440, hm |-> m % 1440]

\* The splitter taking every shift to end at 20:00 of the day of the start.
ShiftEndEvening(start) == start.day * 1440 + 20 * 60

\* End of the shift an entry starts in: 20:00 for a start in 08:00-19:59,
\* 08:00 of the next day for a start from 20:00, 08:00 for a start before 08:00.
ShiftEnd(start) ==
    IF 8 * 60 <= start.hm /\ start.hm < 20 * 60 THEN start.day * 1440 + 20 * 60
    ELSE IF start.hm >= 20 * 60 THEN (start.day + 1) * 1440 + 8 * 60
    ELSE start.day * 1440 + 8 * 60

\* The entries one record becomes; part is 0 for an entry left whole.
SplitRecord(record) ==
    LET start_dt == record.start.day * 1440 + record.start.hm
        duration == record.duration
        end_dt == start_dt + duration
        shift_end == ShiftEnd(record.start)
        first_part_duration == shift_end - start_dt
        remaining_duration == duration - first_part_duration
        first_part_qty ==
            TruncatedShare(first_part_duration, duration, record.qty[1])
        first_part ==
            [record EXCEPT !.duration = first_part_duration,
                           !.end = StampOf(shift_end),
                           !.qty = IF record.qty # <<>> THEN <<first_part_qty>>
                                   ELSE record.qty,
                           !.part = 1]
        second_part ==
            [record EXCEPT !.duration = remaining_duration,
                           !.start = StampOf(shift_end),
                           !.end = StampOf(shift_end + remaining_duration),
                           !.qty = IF record.qty # <<>>
                                   THEN <<record.qty[1] - first_part_qty>>
                                   ELSE record.qty,
                           !.part = 2]
    IN  IF end_dt <= shift_end THEN <<record>>
        ELSE (IF first_part_duration > 0 THEN <<first_part>> ELSE <<>>) \o
             (IF remaining_duration > 0 THEN <<second_part>> ELSE <<>>)

RECURSIVE _split_jobs_across_shifts(_)
_split_jobs_across_shifts(schedule) ==
    IF schedule = <<>> THEN <<>>
    ELSE SplitRecord(Head(schedule)) \o _split_jobs_across_shifts(Tail(schedule))

\* An entry that starts `lead` minutes before the boundary at minute
\* `boundary` and lasts lead + tail minutes.
ShiftRecord(boundary, lead, tail, qty, type) ==
    [line |-> 1, job_id |-> 1, type |-> type, duration |-> lead + tail, qty |-> qty,
     start |-> StampOf(boundary - lead), end |-> StampOf(boundary + tail), part |-> 0]

\* Minutes after the boundary of an entry that reaches the boundary after
\* it, 12 hours later, and goes past that one.
LongTails == {12 * 60, 12 * 60 + 1}

\* Production and cleaning entries around 20:00 of day 0 and 08:00 of day 1.
ShiftRecords ==
    {ShiftRecord(boundary, lead, tail, qty, type) :
        boundary \in {20 * 60, 1440 + 8 * 60},
        lead \in 1..MaxFirst, tail \in (0..MaxSecond) \cup LongTails,
        qty \in {<<>>} \cup {<<q>> : q \in 0..MaxShiftQty},
        type \in {"JOB", "CIP2"}}

InitShift ==
    /\ line = 1
    /\ evictions = SampleEvictions
    /\ rules = SampleRules
    /\ norms = SampleNorms(1)
    /\ FunctionEntry("shift")

\* One call of _split_jobs_across_shifts on a schedule of one entry.
ShiftSplit ==
    /\ pc = "shift"
    /\ \E record \in ShiftRecords :
          /\ call' = record
          /\ ret' = _split_jobs_across_shifts(<<record>>)
    /\ pc' = "shifted"
    /\ UNCHANGED <<sorted, order, solver, idx, t, results, prev_job,
                   total_volume_since_cip, current_product_volume,
                   current_product_name, last_auto_cip_index, remaining_qty,
                   remaining_qty_pieces, part_number, iter>>
    /\ UNCHANGED <<inputVars, tableVars>>

SpecShift == InitShift /\ [][ShiftSplit]_vars

\* C9: when an entry that carries a quantity is cut, the first part gets
\* floor(total_qty * first_part_duration / duration), the second part gets
\* total_qty minus that value, and the two quantities sum to the original.
C9_ShiftQuantitySplit ==
    (pc = "shifted" /\ Len(ret) = 2 /\ call.qty # <<>>) =>
        /\ ret[1].qty = <<(call.qty[1] * ret[1].duration) \div call.duration>>
        /\ ret[2].qty = <<call.qty[1] - ret[1].qty[1]>>
        /\ ret[1].qty[1] + ret[2].qty[1] = call.qty[1]

\* The first 08:00 or 20:00 instant after minute m.
NextBoundary(m) ==
    CHOOSE b \in {8 * 60 + 12 * 60 * k : k \in 0..8} :
        /\ b > m
        /\ \A k \in 0..8 : 8 * 60 + 12 * 60 * k > m => b <= 8 * 60 + 12 * 60 * k

\* C21: an entry that crosses the end of the shift it starts in becomes
\* exactly two entries of the same job_id and type, the first ending and the
\* second starting at that boundary, with the two clipped lengths as
\* durations, which sum to the original, marked part 1 and part 2; an entry
\* that ends at or before the boundary is returned unchanged.
C21_ShiftCut ==
    pc = "shifted" =>
        LET start == StampMinutes(call.start)
            boundary == NextBoundary(start)
        IN  IF start + call.duration > boundary
            THEN /\ Len(ret) = 2
                 /\ \A k \in 1..2 : ret[k].job_id = call.job_id /\ ret[k].type = call.type
                 /\ StampMinutes(ret[1].start) = start
                 /\ StampMinutes(ret[1].end) = boundary
                 /\ StampMinutes(ret[2].start) = boundary
                 /\ ret[1].duration = boundary - start
                 /\ ret[2].duration = start + call.duration - boundary
                 /\ ret[1].duration + ret[2].duration = call.duration
                 /\ ret[1].part = 1 /\ ret[2].part = 2
            ELSE ret = <<call>>

\* A cleaning that crosses 08:00 of day 1 has been cut.
C21_Witness ==
    /\ pc = "shifted"
    /\ call.type = "CIP2"
    /\ StampMinutes(call.start) < 1440 + 8 * 60
    /\ StampMinutes(call.start) + call.duration > 1440 + 8 * 60
    /\ Len(ret) = 2

\* An 08:00 or 20:00 instant lies strictly between the start and the end of
\* the entry.
Straddles(record) ==
    NextBoundary(StampMinutes(record.start)) < StampMinutes(record.end)

\* C22: no entry of the splitter's result straddles a shift boundary,
\* whatever the duration of the input entry; applying the splitter a second
\* time changes nothing.
C22_NoStraddle ==
    pc = "shifted" =>
        /\ \A k \in DOMAIN ret : ~Straddles(ret[k])
        /\ _split_jobs_across_shifts(ret) = ret

-----------------------------------------------------------------------------
(* C11: the timeline of one line *)

\* Entry k + 1 of the list starts exactly when entry k ends.
Contiguous(k) == StampMinutes(results[k + 1].start) = StampMinutes(results[k].end)

\* C11: the entries of the line are ordered by start time, no two of them
\* overlap, and each entry starts exactly when the previous one ends.
C11_Timeline ==
    Built =>
        \A k \in 1..(Len(results) - 1) :
            /\ StampMinutes(results[k].start) <= StampMinutes(results[k + 1].start)
            /\ StampMinutes(results[k].end) <= StampMinutes(results[k + 1].start)
            /\ Contiguous(k)

-----------------------------------------------------------------------------
(* LineLinker: the bindings loop of build_schedule_from_plan *)

MaxBindings == 2

LinkLines == {1, 2, 3}

\* Minutes a line's only job lasts; 0 stands for a line without jobs in the
\* plan, which gets no schedule, and 750 takes the job past 20:00.
LinkDurations == {0, 30, 60, 90, 750}

\* line_bindings, a dict target -> source, as the list of its items in
\* insertion order: distinct targets, no line bound to itself, no cycle.
LineBindings ==
    {b \in UNION {[1..n -> [target : LinkLines, source : LinkLines]] : n \in 0..MaxBindings} :
        /\ \A k \in DOMAIN b : b[k].target # b[k].source
        /\ \A k, m \in DOMAIN b : k # m => b[k].target # b[m].target
        /\ \A k, m \in DOMAIN b :
               ~(b[k].target = b[m].source /\ b[m].target = b[k].source)}

\* line_schedules after the per-line builds: every line with a job gets that
\* job's production entry from the shift start, followed by a second job of
\* 30 minutes; a line without result is left out.
LineSchedules(durations) ==
    [ln \in {l \in LinkLines : durations[l] > 0} |->
        <<ProductionEntry(ln, base, 1, 1, 1, 0, durations[ln]),
          ProductionEntry(ln, base, 2, 1, 1, durations[ln], 30)>>]

\* Variant for the sensitivity check of C30: only the start of the record
\* is moved.
ShiftedStartOnly(record, time_diff) ==
    [record EXCEPT !.start = StampOf(StampMinutes(record.start) + time_diff)]

\* A record with start and end moved by time_diff minutes.
ShiftedRecord(record, time_diff) ==
    [record EXCEPT !.start = StampOf(StampMinutes(record.start) + time_diff),
                   !.end = StampOf(StampMinutes(record.end) + time_diff)]

\* The body of `for target_line, source_line in line_bindings.items()`.
ApplyBinding(line_schedules, target_line, source_line) ==
    IF source_line \in DOMAIN line_schedules /\ target_line \in DOMAIN line_schedules
    THEN LET source_schedule == line_schedules[source_line]
             target_schedule == line_schedules[target_line]
             source_end_dt == StampMinutes(source_schedule[Len(source_schedule)].end)
             target_start_dt == StampMinutes(target_schedule[1].start)
             time_diff == source_end_dt - target_start_dt
         IN  [line_schedules EXCEPT ![target_line] =
                 [k \in DOMAIN target_schedule |->
                     ShiftedRecord(target_schedule[k], time_diff)]]
    ELSE line_schedules

InitLink ==
    /\ line = 1
    /\ evictions = SampleEvictions
    /\ rules = SampleRules
    /\ norms = SampleNorms(1)
    /\ pc = "link"
    /\ BuildLocals
    /\ jobs = <<>>
    /\ cfg = DisabledConfig
    /\ use_cp_sat = FALSE
    /\ fix_priorities = {}
    /\ base = 8 * 60
    /\ call = <<>>
    /\ ret = <<>>

\* The per-line builds of build_schedule_from_plan(line_bindings = ...).
BuildLines ==
    /\ pc = "link"
    /\ \E durations \in [LinkLines -> LinkDurations], bindings \in LineBindings :
          /\ call' = [line_bindings |-> bindings, durations |-> durations]
          /\ ret' = LineSchedules(durations)
    /\ pc' = "bind"
    /\ UNCHANGED <<sorted, order, solver, idx, t, results, prev_job,
                   total_volume_since_cip, current_product_volume,
                   current_product_name, last_auto_cip_index, remaining_qty,
                   remaining_qty_pieces, part_number, iter>>
    /\ UNCHANGED <<inputVars, tableVars>>

\* One iteration of the bindings loop; after the last one the schedule is
\* returned.
BindStep ==
    /\ pc = "bind"
    /\ IF idx <= Len(call.line_bindings)
       THEN /\ ret' = ApplyBinding(ret, call.line_bindings[idx].target,
                                   call.line_bindings[idx].source)
            /\ idx' = idx + 1
            /\ pc' = "bind"
       ELSE /\ pc' = "linked"
            /\ UNCHANGED <<ret, idx>>
    /\ UNCHANGED <<sorted, order, solver, t, results, prev_job,
                   total_volume_since_cip, current_product_volume,
                   current_product_name, last_auto_cip_index, remaining_qty,
                   remaining_qty_pieces, part_number, iter, call>>
    /\ UNCHANGED <<inputVars, tableVars>>

SpecLink == InitLink /\ [][BuildLines \/ BindStep]_vars

\* C12: after all bindings have been applied, for every binding whose two
\* lines both have a schedule, the target line's first entry starts when the
\* source line's last entry ends.
C12_LinkPostcondition ==
    pc = "linked" =>
        \A k \in DOMAIN call.line_bindings :
            LET target == call.line_bindings[k].target
                source == call.line_bindings[k].source
            IN  (target \in DOMAIN ret /\ source \in DOMAIN ret)
                    => StampMinutes(ret[target][1].start)
                           = StampMinutes(ret[source][Len(ret[source])].end)

\* C24: each line's timeline has been passed through the ShiftSplitter
\* before the bindings are applied, so the list the build returns holds the
\* shift-split entries: no entry of it crosses an 08:00 or 20:00 instant.
C24_SplitBeforeLink ==
    pc \in {"bind", "linked"} =>
        \A ln \in DOMAIN ret : \A k \in DOMAIN ret[ln] : ~Straddles(ret[ln][k])

\* The binding the bindings loop is about to apply.
NextBinding == call.line_bindings[idx]

\* C30: applying a binding moves the start and the end of every entry of the
\* target line by one and the same delta, the source's last end minus the
\* target's first start, so that durations and order are kept, and leaves
\* the entries of every other line unchanged.
C30_LinkFrame ==
    [][(pc = "bind" /\ idx <= Len(call.line_bindings)) =>
          LET target == NextBinding.target
              source == NextBinding.source
          IN  /\ DOMAIN ret' = DOMAIN ret
              /\ \A ln \in DOMAIN ret : ln # target => ret'[ln] = ret[ln]
              /\ (target \in DOMAIN ret /\ source \notin DOMAIN ret)
                     => ret'[target] = ret[target]
              /\ (target \in DOMAIN ret /\ source \in DOMAIN ret) =>
                     LET delta == StampMinutes(ret[source][Len(ret[source])].end)
                                      - StampMinutes(ret[target][1].start)
                     IN  /\ Len(ret'[target]) = Len(ret[target])
                         /\ \A k \in DOMAIN ret[target] :
                                /\ StampMinutes(ret'[target][k].start)
                                       = StampMinutes(ret[target][k].start) + delta
                                /\ StampMinutes(ret'[target][k].end)
                                       = StampMinutes(ret[target][k].end) + delta
                                /\ ret'[target][k].duration = ret[target][k].duration
                                /\ ret'[target][k].job_id = ret[target][k].job_id
                                /\ ret'[target][k].type = ret[target][k].type]_vars

\* C30 witness: the bindings loop has moved a target line of two entries
\* away from the shift start while another line stayed where it was built.
C30_Witness ==
    /\ pc = "linked"
    /\ \E k \in DOMAIN call.line_bindings :
          LET target == call.line_bindings[k].target
              source == call.line_bindings[k].source
          IN  /\ target \in DOMAIN ret /\ source \in DOMAIN ret
              /\ Len(ret[target]) = 2
              /\ StampMinutes(ret[target][1].start) > base
              /\ StampMinutes(ret[target][2].start)
                     = StampMinutes(ret[target][1].start) + ret[target][1].duration
              /\ StampMinutes(ret[source][1].start) = base

-----------------------------------------------------------------------------
(* The eviction file and its cache: _load_evictions_cache, _check_eviction *)

\* Rows of evictions_sets.json: "from", the products of "to" and the
\* products of "exceptions" (both ;-lists, stripped and lower-cased).
EvictionRows ==
    {[from |-> f, to |-> to, exceptions |-> ex] :
        f \in Products, to \in SUBSET Products, ex \in SUBSET Products}

\* Files of one rule set for line 1, line 2 or both: one row, or a row for
\* product a before a row that lets b be evicted by a.
EvictionFiles ==
    {<<[lines |-> ls, rules |-> rs]>> :
        ls \in {<<1>>, <<2>>, <<1, 2>>},
        rs \in {<<r>> : r \in EvictionRows} \cup
               {<<r1, [from |-> "b", to |-> {"a"}, exceptions |-> {}]>> :
                    r1 \in {r \in EvictionRows : r.from = "a"}}}

\* evictions_by_product of a rule set: from -> set of targets; a later row
\* for the same product replaces an earlier one; "exceptions" is not read.
RECURSIVE EvictionsByProduct(_)
EvictionsByProduct(rows) ==
    IF rows = <<>> THEN <<>>
    ELSE LET rule == rows[Len(rows)]
             before == EvictionsByProduct(SubSeq(rows, 1, Len(rows) - 1))
         IN  [prod \in DOMAIN before \cup {rule.from} |->
                 IF prod = rule.from THEN rule.to ELSE before[prod]]

\* cache[line_name] = table: a key already in the dict keeps its place.
CachePut(cache, key, table) ==
    IF \E k \in DOMAIN cache : cache[k].key = key
    THEN [k \in DOMAIN cache |->
             IF cache[k].key = key THEN [key |-> key, table |-> table] ELSE cache[k]]
    ELSE Append(cache, [key |-> key, table |-> table])

RECURSIVE CachePutAll(_, _, _)
CachePutAll(cache, keys, table) ==
    IF keys = <<>> THEN cache
    ELSE CachePutAll(CachePut(cache, Head(keys), table), Tail(keys), table)

\* The cache built from the file's rule sets, in file order.
RECURSIVE _load_evictions_cache(_)
_load_evictions_cache(evictions_data) ==
    IF evictions_data = <<>> THEN <<>>
    ELSE LET ruleset == evictions_data[Len(evictions_data)]
             before == _load_evictions_cache(
                           SubSeq(evictions_data, 1, Len(evictions_data) - 1))
         IN  CachePutAll(before, ruleset.lines, EvictionsByProduct(ruleset.rules))

InitEvict ==
    /\ line \in ResolveLines
    /\ evictions = <<>>
    /\ rules = SampleRules
    /\ norms = SampleNorms(1)
    /\ FunctionEntry("load")

\* The first call of _load_evictions_cache(): the file is read into the cache.
LoadEvictions ==
    /\ pc = "load"
    /\ \E evictions_data \in EvictionFiles :
          /\ call' = [evictions_data |-> evictions_data]
          /\ evictions' = _load_evictions_cache(evictions_data)
    /\ pc' = "evict"
    /\ UNCHANGED <<sorted, order, solver, idx, t, results, prev_job,
                   total_volume_since_cip, current_product_volume,
                   current_product_name, last_auto_cip_index, remaining_qty,
                   remaining_qty_pieces, part_number, iter, ret>>
    /\ UNCHANGED <<inputVars, rules, norms>>

\* One call of _transition_time_estimate(line, job_a, job_b) on the loaded
\* cache.
ResolveEviction ==
    /\ pc = "evict"
    /\ \E job_a, job_b \in {Job(n, v, 1, 1000, <<>>) : n \in Products, v \in {"", "v1"}} :
          /\ call' = [evictions_data |-> call.evictions_data,
                      job_a |-> job_a, job_b |-> job_b]
          /\ ret' = _transition_time_estimate(line, job_a, job_b)
    /\ pc' = "evicted"
    /\ UNCHANGED <<sorted, order, solver, idx, t, results, prev_job,
                   total_volume_since_cip, current_product_volume,
                   current_product_name, last_auto_cip_index, remaining_qty,
                   remaining_qty_pieces, part_number, iter>>
    /\ UNCHANGED <<inputVars, tableVars>>

SpecEvict == InitEvict /\ [][LoadEvictions \/ ResolveEviction]_vars

\* The row of the file that speaks for product x on line ln, if any.
EvictionRowsFor(ln, x) ==
    {r \in UNION {Range(rs.rules) : rs \in {q \in Range(call.evictions_data) :
                                               ln \in Range(q.lines)}} : r.from = x}

\* C13: when no format change applies, the resolver returns an eviction for
\* A -> B if and only if the line's eviction table lists B among A's targets
\* and B is not among A's exceptions.
C13_EvictionHonoursDenials ==
    (pc = "evicted" /\ ~FormatsDiffer(call.job_a, call.job_b)) =>
        (ret.type = "VYT" <=>
            \E r \in EvictionRowsFor(line, call.job_a.name) :
                /\ call.job_b.name \in r.to
                /\ call.job_b.name \notin r.exceptions)

-----------------------------------------------------------------------------
(* C14: the CIP level cascade *)

CipLevels == {"CIP1", "CIP2", "CIP3"}

\* The list of the rule entry at a level.
ListAt(entry, level) ==
    CASE level = "CIP1" -> entry.cip1
      [] level = "CIP2" -> entry.cip2
      [] level = "CIP3" -> entry.cip3

\* The rule entries of product x on line ln.
RuleEntries(ln, x) ==
    {rules[k].table[x] : k \in {m \in DOMAIN rules :
                                   rules[m].key = ln /\ x \in DOMAIN rules[m].table}}

\* Levels without the base mark that list y, and levels with the base mark.
ExceptionLevels(entry, y) ==
    {level \in CipLevels : "baza" \notin ListAt(entry, level) /\ y \in ListAt(entry, level)}

BaseLevels(entry) == {level \in CipLevels : "baza" \in ListAt(entry, level)}

\* The line's norms for a level: the cells of the level's rows that hold a
\* number; the fallback minutes of the level.
LevelNorms(ln, level) ==
    {norms[k].cols[ln][1] :
        k \in {m \in DOMAIN norms :
                  /\ norms[m].event = EventOf(level)
                  /\ ln \in DOMAIN norms[m].cols
                  /\ norms[m].cols[ln] # <<>>}}

LevelFallback(level) ==
    CASE level = "CIP1" -> 40
      [] level = "CIP2" -> 240
      [] level = "CIP3" -> 300

\* Neither a format change nor an eviction applies to the resolved pair.
CipStage ==
    /\ pc = "resolved"
    /\ ~FormatsDiffer(call[1], call[2])
    /\ ~EvictionRuleMatches(line, call[1].name, call[2].name)

C14_ExceptionReached ==
    /\ CipStage
    /\ \E entry \in RuleEntries(line, call[1].name) :
          /\ BaseLevels(entry) # {}
          /\ ExceptionLevels(entry, call[2].name) # {}
          /\ ret.type \in ExceptionLevels(entry, call[2].name)
          /\ ret.type \notin BaseLevels(entry)
    /\ ret.time \in LevelNorms(line, ret.type)

-----------------------------------------------------------------------------
(* The plan filter: _preprocess_plan_data and the head of                   *)
(* build_schedule_from_plan                                                 *)

MaxPlan == 2

\* A cell of the plan that _qty_to_int reads: <<>> when int() rejects the
\* text (or the key is absent), <<n>> when the text is the number n.
_qty_to_int(s) == IF s = <<>> THEN 0 ELSE s[1]

\* str(job.get("line", "")).strip() with the first group of digits in it:
\* an absent or empty line, JSON null, "Line 1", "2".
RawLines ==
    {[text |-> "", digits |-> <<>>], [text |-> "None", digits |-> <<>>],
     [text |-> "Line 1", digits |-> <<1>>], [text |-> "2", digits |-> <<2>>]}

\* f"Линия {int(m.group(1))}" if m else raw_line.
NormalisedLine(raw_line) ==
    IF raw_line.digits # <<>>
    THEN [text |-> "Line", digits |-> raw_line.digits]
    ELSE raw_line

PlanRecords ==
    {[line |-> ln, quantity |-> q, fact_qty |-> f, status |-> st] :
        ln \in RawLines, q \in {<<>>, <<-1>>, <<0>>, <<2>>},
        f \in {<<>>, <<1>>, <<2>>}, st \in {"", "postponed"}}

Plans == UNION {[1..n -> PlanRecords] : n \in 0..MaxPlan}

\* The record is kept by the filter.
Kept(job) ==
    /\ ~(NormalisedLine(job.line).text = "" \/ _qty_to_int(job.quantity) <= 0)
    /\ job.status \notin {"postponed", "otlozheno", "otlozhen"}
    /\ ~(_qty_to_int(job.fact_qty) >= _qty_to_int(job.quantity))

\* job_copy of the record at index k of the plan; the index stands for the
\* record's identity.
JobCopy(plan, k) ==
    [index |-> k, line |-> NormalisedLine(plan[k].line),
     quantity |-> _qty_to_int(plan[k].quantity) - _qty_to_int(plan[k].fact_qty)]

\* jobs_by_line as the list of its items: the copies of the kept records in
\* plan order (each carries its line).
_preprocess_plan_data(plan) ==
    LET kept == {k \in DOMAIN plan : Kept(plan[k])}
        RECURSIVE Copies(_)
        Copies(k) ==
            IF k > Len(plan) THEN <<>>
            ELSE (IF k \in kept THEN <<JobCopy(plan, k)>> ELSE <<>>) \o Copies(k + 1)
    IN  Copies(1)

\* What build_schedule_from_plan tells its caller before the per-line
\* builds: the dialogs shown and the jobs handed on.
PlanOutcome(plan) ==
    IF plan = <<>>
    THEN [messages |-> <<"showwarning: plan empty or missing">>, jobs |-> <<>>]
    ELSE IF _preprocess_plan_data(plan) = <<>>
    THEN [messages |-> <<"showinfo: no jobs to schedule">>, jobs |-> <<>>]
    ELSE [messages |-> <<>>, jobs |-> _preprocess_plan_data(plan)]

InitPlan ==
    /\ line = 1
    /\ evictions = SampleEvictions
    /\ rules = SampleRules
    /\ norms = SampleNorms(1)
    /\ FunctionEntry("plan")

\* build_schedule_from_plan up to the per-line builds.
PreprocessPlan ==
    /\ pc = "plan"
    /\ \E plan \in Plans :
          /\ call' = plan
          /\ ret' = PlanOutcome(plan)
    /\ pc' = "planned"
    /\ UNCHANGED <<sorted, order, solver, idx, t, results, prev_job,
                   total_volume_since_cip, current_product_volume,
                   current_product_name, last_auto_cip_index, remaining_qty,
                   remaining_qty_pieces, part_number, iter>>
    /\ UNCHANGED <<inputVars, tableVars>>

SpecPlan == InitPlan /\ [][PreprocessPlan]_vars

\* A record without a line or with a non-positive quantity.
InvalidRecord(r) ==
    \/ r.line.text \in {"", "None"} /\ r.line.digits = <<>>
    \/ r.quantity = <<>>
    \/ r.quantity[1] <= 0

\* The amount already produced, 0 when none is stated.
FactOf(r) == IF r.fact_qty = <<>> THEN 0 ELSE r.fact_qty[1]

\* A valid record that is neither postponed nor completed.
DueRecord(r) ==
    /\ ~InvalidRecord(r)
    /\ r.status # "postponed"
    /\ FactOf(r) < r.quantity[1]

\* The record at index k is handed to the build.
HandedOn(k) == \E m \in DOMAIN ret.jobs : ret.jobs[m].index = k

\* C15: invalid records are skipped and reported to the caller, and every
\* valid, non-postponed, not yet completed record is still scheduled with
\* remaining quantity = quantity - fact_qty.
C15_InvalidRecordsReported ==
    pc = "planned" =>
        /\ \A k \in DOMAIN call : InvalidRecord(call[k]) => ~HandedOn(k)
        /\ (\E k \in DOMAIN call : InvalidRecord(call[k]))
               => \E m \in DOMAIN ret.messages : ret.messages[m] = "skipped records"
        /\ \A k \in DOMAIN call :
               DueRecord(call[k]) =>
                   \E m \in DOMAIN ret.jobs :
                       /\ ret.jobs[m].index = k
                       /\ ret.jobs[m].quantity = call[k].quantity[1] - FactOf(call[k])

-----------------------------------------------------------------------------
(* C16: what the buffer leaves of the job *)

\* The split loop has just run an iteration in which a check applied the
\* buffer and a part was emitted.
BufferedCut ==
    /\ pc \in {"split", "after", "hang"}
    /\ iter.check \in {1, 2, 3}
    /\ iter.buffer
    /\ iter.emitted

\* C16: whenever the buffer is applied, the part emitted up to the extended
\* boundary leaves exactly min_remainder of the job still to be produced.
C16_BufferLeavesMinRemainder ==
    BufferedCut => iter.remaining_before - LastPart.qty[1] = cfg.min_remainder

-----------------------------------------------------------------------------
(* C17: the counter reset rule of a mandatory transition *)

\* The running totals of the line.
Counters == <<total_volume_since_cip, current_product_volume, current_product_name>>

\* The step appends the entry of a mandatory transition between two jobs.
TransitionExecutes == pc = "job" /\ Len(results') = Len(results) + 1

\* C17: an executed mandatory transition resets the running totals if and
\* only if it is neither an eviction nor a format change; an eviction or a
\* format-change entry leaves the three running values as they were.
C17_CounterReset ==
    [][TransitionExecutes =>
          IF results'[Len(results')].type \in {"VYT", "P"}
          THEN Counters' = Counters
          ELSE Counters' = <<0, 0, None>>]_vars

-----------------------------------------------------------------------------
(* C18: the precedence check of an automatic cleaning *)

\* Strictness of a level: CIP3 > CIP2 > CIP1; 0 for anything else.
Strictness(type) ==
    CASE type = "CIP3" -> 3 [] type = "CIP2" -> 2 [] type = "CIP1" -> 1 [] OTHER -> 0

\* A next job exists and the mandatory transition to it is a CIP level at
\* least as strict as the configured cip_type.
StricterTransitionAhead ==
    /\ idx < Len(order)
    /\ LET required == _transition_time_estimate(line, jobs[order[idx]],
                                                 jobs[order[idx + 1]]).type
       IN  required \in {"CIP1", "CIP2", "CIP3"}
           /\ Strictness(required) >= Strictness(cfg.cip_type)

\* The step is one in which a threshold calls for an automatic cleaning: an
\* iteration of the split loop that cut a part and left some of the job, or
\* the check after a job with a total at or over its threshold.
CleaningCalledFor ==
    \/ pc = "split" /\ iter'.check # 0 /\ remaining_qty' > 0
    \/ /\ pc = "after" /\ cfg.enabled /\ remaining_qty = 0
       /\ \/ total_volume_since_cip >= cfg.volume_threshold
          \/ current_product_volume >= cfg.product_threshold

\* The step ends with a new automatic cleaning entry of the configured type.
CleaningInserted ==
    /\ Len(results') > Len(results)
    /\ results'[Len(results')].job_id.prefix = "AUTO-CIP"
    /\ results'[Len(results')].type = cfg.cip_type

\* What C18 says of a step in which a cleaning is called for.
PrecedenceRule ==
    /\ ~CleaningInserted <=> StricterTransitionAhead
    /\ ~CleaningInserted =>
          /\ total_volume_since_cip' >= total_volume_since_cip
          /\ total_volume_since_cip' > 0
          /\ current_product_volume' >= current_product_volume
    /\ CleaningInserted =>
          total_volume_since_cip' = 0 /\ current_product_volume' = 0

\* The next job is about to begin after a cleaning was omitted for the
\* mandatory CIP before it: the split loop left some of the previous job, or
\* the totals are at or over a threshold, and no cleaning entry was written.
CleaningWasOmitted ==
    /\ pc = "job" /\ idx > 1 /\ cfg.enabled
    /\ results # <<>> /\ results[Len(results)].type = "JOB"
    /\ LET required == _transition_time_estimate(line, jobs[order[idx - 1]],
                                                 jobs[order[idx]]).type
       IN  required \in {"CIP1", "CIP2", "CIP3"}
           /\ Strictness(required) >= Strictness(cfg.cip_type)
    /\ \/ remaining_qty > 0
       \/ /\ remaining_qty = 0
          /\ \/ total_volume_since_cip >= cfg.volume_threshold
             \/ current_product_volume >= cfg.product_threshold

\* The step appends the mandatory CIP entry and resets the totals.
MandatoryCipAppended ==
    /\ Len(results') = Len(results) + 1
    /\ Strictness(results'[Len(results')].type) >= Strictness(cfg.cip_type)
    /\ results'[Len(results')].job_id.prefix = "CIP"
    /\ total_volume_since_cip' = 0 /\ current_product_volume' = 0

\* C18: where a threshold calls for an automatic cleaning, the entry is
\* omitted if and only if a next job exists and the mandatory transition to
\* it is a CIP level at least as strict as cip_type; then the running totals
\* stay unreset until that mandatory CIP entry is appended before the next
\* job; in every other case a cleaning entry of the configured type is
\* inserted and both totals are reset.
C18_PrecedenceCheck ==
    /\ [][CleaningCalledFor => PrecedenceRule]_vars
    /\ [][CleaningWasOmitted => MandatoryCipAppended]_vars

\* The part of C18 that every step satisfies: the rule of omission and reset
\* in every step whose free-slot search returns.
C18_RuleWhenSlotFound ==
    [][(CleaningCalledFor /\ pc' # "hang") => PrecedenceRule]_vars

-----------------------------------------------------------------------------
(* C19: the threshold check at the end of a job *)

\* All production of the job just handled has been emitted, the last entry
\* of the line is still that production, and a running total is at or over
\* its threshold.
CarriedOverThreshold ==
    /\ cfg.enabled
    /\ results # <<>> /\ results[Len(results)].type = "JOB"
    /\ remaining_qty <= 0
    /\ \/ total_volume_since_cip >= cfg.volume_threshold
       \/ current_product_volume >= cfg.product_threshold

\* The step writes, as the next entry of the line, an automatic cleaning or
\* a mandatory CIP transition at least as strict as the configured level.
NextEntryCleans ==
    /\ Len(results') > Len(results)
    /\ LET entry == results'[Len(results) + 1]
       IN  \/ entry.job_id.prefix = "AUTO-CIP"
           \/ /\ entry.job_id.prefix = "CIP"
              /\ Strictness(entry.type) >= Strictness(cfg.cip_type)

\* C19: whenever all production of a job has been emitted with a total at or
\* over its threshold, the very next entry of the line is an automatic
\* cleaning or a mandatory CIP transition at least as strict as the
\* configured level; the build neither goes on to the next job nor ends with
\* the totals carried over the threshold.
C19_EndOfJobCheck ==
    /\ [][(pc = "job" /\ idx > 1 /\ CarriedOverThreshold) => NextEntryCleans]_vars
    /\ [](pc \in {"done", "hang"} => ~CarriedOverThreshold)

-----------------------------------------------------------------------------
(* The free-slot search on its own: the loop of _find_next_free_slot *)

\* Windows around the cleaning at 10:00, inside it, before midnight and
\* beyond the 24 hours of max_shift.
SlotStarts == ProbeStarts \cup {610, 1500}

\* Cleaning durations, the 0 a norm may hold among them.
SlotDurations == {0, 30, 60}

InitSlot ==
    /\ line = 1
    /\ evictions = SampleEvictions
    /\ rules = SampleRules
    /\ norms = SampleNorms(1)
    /\ pc = "slotcall"
    /\ BuildLocals
    /\ jobs = <<>>
    /\ cfg = DisabledConfig
    /\ use_cp_sat = FALSE
    /\ fix_priorities = {}
    /\ base = 0
    /\ call = <<>>
    /\ ret = 0

\* The call _find_next_free_slot(results, base_dt, start_time, duration,
\* line): current_time = start_time.
SlotCall ==
    /\ pc = "slotcall"
    /\ \E res \in ProbeLists, start_time \in SlotStarts, duration \in SlotDurations :
          /\ call' = [results |-> res, start_time |-> start_time,
                      duration |-> duration, line |-> line]
          /\ t' = start_time
    /\ pc' = "slot"
    /\ UNCHANGED <<sorted, order, solver, idx, results, prev_job,
                   total_volume_since_cip, current_product_volume,
                   current_product_name, last_auto_cip_index, remaining_qty,
                   remaining_qty_pieces, part_number, iter, ret>>
    /\ UNCHANGED <<inputVars, tableVars>>

\* One test of `while current_time < max_shift` with the body it guards;
\* t is current_time.
SlotStep ==
    /\ pc = "slot"
    /\ IF t >= 24 * 60
       THEN ret' = call.start_time /\ pc' = "slotted" /\ t' = t
       ELSE IF ~_check_cip_conflict(call.results, t, call.duration, call.line)
       THEN ret' = t /\ pc' = "slotted" /\ t' = t
       ELSE t' = t + call.duration /\ pc' = "slot" /\ ret' = ret
    /\ UNCHANGED <<sorted, order, solver, idx, results, prev_job,
                   total_volume_since_cip, current_product_volume,
                   current_product_name, last_auto_cip_index, remaining_qty,
                   remaining_qty_pieces, part_number, iter, call>>
    /\ UNCHANGED <<inputVars, tableVars>>

\* The interpreter keeps running the loop: a step that can change the state
\* is eventually taken.
SpecSlot ==
    InitSlot /\ [][SlotCall \/ SlotStep]_vars /\ WF_vars(SlotCall \/ SlotStep)

\* The candidates t + k * duration below 24 hours, and the free ones.
SlotCandidates ==
    {c \in call.start_time..(24 * 60 - 1) :
        \/ c = call.start_time
        \/ call.duration > 0 /\ (c - call.start_time) % call.duration = 0}

FreeCandidates ==
    {c \in SlotCandidates : ~_check_cip_conflict(call.results, c, call.duration, call.line)}

\* C20: the search terminates, and returns the first candidate
\* t + k * duration below 24 hours without a conflict, or t itself when there
\* is none.
C20_FreeSlotTerminates ==
    /\ (pc = "slot") ~> (pc = "slotted")
    /\ [](pc = "slotted" =>
            IF FreeCandidates # {}
            THEN ret \in FreeCandidates /\ \A c \in FreeCandidates : ret <= c
            ELSE ret = call.start_time)

\* The part of C20 that holds: a search that returns gives the first free
\* candidate, or t when there is none, and agrees with the value the build
\* uses.
C20_ResultWhenReturned ==
    pc = "slotted" =>
        /\ IF FreeCandidates # {}
           THEN ret \in FreeCandidates /\ \A c \in FreeCandidates : ret <= c
           ELSE ret = call.start_time
        /\ ret = _find_next_free_slot(call.results, call.start_time,
                                      call.duration, call.line)

-----------------------------------------------------------------------------
(* The optimizer on its own: _optimize_with_cp_sat over three products *)

MaxSequenced == 3

\* cip_rules.json with three products: CIP2 is the base level after each of
\* them; b after a and a after c need CIP3, c after b needs only CIP1.
RingRules ==
    <<[key |-> 1,
       table |-> ("a" :> [cip1 |-> {}, cip2 |-> {"baza"}, cip3 |-> {"b"}]) @@
                 ("b" :> [cip1 |-> {"c"}, cip2 |-> {"baza"}, cip3 |-> {}]) @@
                 ("c" :> [cip1 |-> {}, cip2 |-> {"baza"}, cip3 |-> {"a"}])]>>

\* norms_data.json, minutes on line 1, with the given CIP2 and CIP3 cells.
RingNorms(c2, c3) ==
    <<[event |-> "cip1", category |-> {"cip"}, cols |-> (1 :> <<1>>)],
      [event |-> "cip2", category |-> {"cip"}, cols |-> (1 :> <<c2>>)],
      [event |-> "cip3", category |-> {"cip"}, cols |-> (1 :> <<c3>>)],
      [event |-> "VYT", category |-> {"vytesnenie"}, cols |-> (1 :> <<1>>)],
      [event |-> "P", category |-> {"perenaladka"}, cols |-> (1 :> <<2>>)]>>

\* Plans of up to MaxSequenced jobs of one piece and one format.
RingPlans ==
    UNION {[1..n -> {Job(nm, "v1", 1, 40, p) : nm \in {"a", "b", "c"},
                                                p \in {<<>>, <<1>>}}] :
           n \in 1..MaxSequenced}

InitOptimize ==
    /\ line = 1
    /\ evictions = <<>>
    /\ rules = RingRules
    /\ norms \in {RingNorms(2, 3), RingNorms(1000, 1501)}
    /\ base = 0
    /\ jobs \in RingPlans
    /\ cfg = DisabledConfig
    /\ use_cp_sat = TRUE
    /\ fix_priorities \in {{}, {1}}
    /\ BuildEntry

SpecOptimize == InitOptimize /\ [][Sort \/ Optimize]_vars

\* Minutes the resolver gives for the adjacent pairs of the list s.
ChangeoverTime(s) ==
    SumSeq([k \in 1..(Len(s) - 1) |->
                _transition_time_estimate(line, jobs[s[k]], jobs[s[k + 1]]).time])

\* C23: when the solver reports OPTIMAL, the returned order has the minimum
\* total changeover time among all permutations of the line's jobs that
\* satisfy the priority and locked-order constraints, for any values in the
\* norms tables.
C23_OptimalOrder ==
    solver = "OPTIMAL" =>
        \A s \in Perms(DOMAIN jobs) :
            RespectsHardConstraints(s) => ChangeoverTime(order) <= ChangeoverTime(s)

\* The part of C23 that holds: with every changeover of at most 1500 minutes
\* the order reported as OPTIMAL is of minimum total changeover time.
C23_OptimalWithinDomain ==
    (/\ solver = "OPTIMAL"
     /\ \A i, j \in DOMAIN jobs :
            _transition_time_estimate(line, jobs[i], jobs[j]).time \in 0..1500) =>
        \A s \in Perms(DOMAIN jobs) :
            RespectsHardConstraints(s) => ChangeoverTime(order) <= ChangeoverTime(s)

-----------------------------------------------------------------------------
(* C25: mandatory transitions between consecutive jobs *)

\* Index in the entry list of the last production entry of job j.
LastIndex(j) ==
    CHOOSE k \in DOMAIN results :
        /\ results[k].type = "JOB" /\ results[k].job_id.job = j
        /\ \A m \in (k + 1)..Len(results) :
               ~(results[m].type = "JOB" /\ results[m].job_id.job = j)

\* C25: for consecutive jobs a, b of the final order for which the resolver
\* gives a positive duration, the timeline holds an entry of the resolver's
\* type between the last production entry of a and the first one of b, also
\* when an automatic cleaning was inserted at the end of job a.
C25_TransitionsKept ==
    Built =>
        \A k \in 1..(Len(order) - 1) :
            LET a == order[k]
                b == order[k + 1]
                tr == _transition_time_estimate(line, jobs[a], jobs[b])
            IN  (tr.time > 0 /\ Scheduled(a) /\ Scheduled(b)) =>
                    \E m \in DOMAIN results :
                        /\ LastIndex(a) < m /\ m < FirstIndex(b)
                        /\ results[m].type = tr.type

-----------------------------------------------------------------------------
(* C26: a suppressed cleaning inside a job *)

\* The last iteration of the split loop left pieces of the job to produce and
\* the precedence check suppressed its automatic cleaning.
MidJobCleaningSuppressed == iter.skipped /\ iter.emitted /\ remaining_qty > 0

\* C26: a suppressed mid-job cleaning does not end the job: the split loop
\* keeps running, so the loop is never left with pieces of the job still to
\* produce.
C26_SuppressedCleaningKeepsJob ==
    MidJobCleaningSuppressed => pc = "split"

-----------------------------------------------------------------------------
(* C27: termination of the split loop *)

\* The iteration about to run changes the state of the build.
IterationAdvances == ENABLED <<SplitStep>>_vars

\* C27: with positive thresholds and a non-negative minimum remainder the
\* loop `while remaining_qty > 0` of every job terminates: no iteration
\* leaves the state as it found it, none stops inside a call that never
\* returns, and every iteration that does not leave the loop emits a part of
\* positive quantity, so the pieces still to produce decrease.
C27_SplitLoopTerminates ==
    /\ [](pc = "split" => IterationAdvances)
    /\ [](pc # "hang")
    /\ [][(pc = "split" /\ pc' = "split") =>
              /\ iter'.emitted /\ iter'.current_part_qty > 0
              /\ remaining_qty' < remaining_qty]_vars

\* The part of C27 that holds: an iteration whose free-slot search returns
\* changes the state, and when it does not leave the loop it has emitted a
\* part of positive quantity.
C27_IterationsEmit ==
    /\ [](pc = "split" => IterationAdvances)
    /\ [][(pc = "split" /\ pc' = "split") =>
              /\ iter'.emitted /\ iter'.current_part_qty > 0
              /\ remaining_qty' < remaining_qty]_vars

-----------------------------------------------------------------------------
(* C28: cleanings and transitions in a row *)

\* Entry k of the timeline is a mandatory transition or an automatic
\* cleaning.
NonProduction(k) == results[k].type # "JOB"

-----------------------------------------------------------------------------
(* The norms columns: the duration lookups on lines 1 to 10 *)

\* norms_data.json of a plant with ten lines: the cell of line n holds
\* k + n minutes (k + 10 + n for the format change), so that no two lines
\* share a value.
PlantNorms(k) ==
    <<[event |-> "cip1", category |-> {"cip"}, cols |-> [n \in 1..10 |-> <<k + n>>]],
      [event |-> "cip2", category |-> {"cip"}, cols |-> [n \in 1..10 |-> <<k + n>>]],
      [event |-> "cip3", category |-> {"cip"}, cols |-> [n \in 1..10 |-> <<k + n>>]],
      [event |-> "VYT", category |-> {"vytesnenie"}, cols |-> [n \in 1..10 |-> <<k + n>>]],
      [event |-> "P", category |-> {"perenaladka"},
       cols |-> [n \in 1..10 |-> <<k + 10 + n>>]]>>

InitLookup ==
    /\ line \in 1..10
    /\ evictions = <<>>
    /\ rules = <<[key |-> line, table |-> SampleRules[1].table]>>
    /\ norms \in {PlantNorms(k) : k \in {0, 100, 200}}
    /\ pc = "lookup"
    /\ BuildLocals
    /\ jobs = <<>>
    /\ cfg = DisabledConfig
    /\ use_cp_sat = FALSE
    /\ fix_priorities = {}
    /\ base = 0
    /\ call = <<>>
    /\ ret = <<>>

\* One duration lookup on the line: an automatic cleaning of a level, an
\* eviction, a format change, or the CIP level of the resolver (b after b).
Lookup ==
    /\ pc = "lookup"
    /\ \E event \in {"cip1", "cip2", "cip3", "VYT", "P", "resolver"} :
          /\ call' = [event |-> event, line |-> line]
          /\ ret' = CASE event = "cip1" -> _get_cip_duration_for_type(line, "CIP1")
                      [] event = "cip2" -> _get_cip_duration_for_type(line, "CIP2")
                      [] event = "cip3" -> _get_cip_duration_for_type(line, "CIP3")
                      [] event = "VYT" -> _get_eviction_time(line)
                      [] event = "P" -> _get_format_change_time(line)
                      [] OTHER -> _transition_time_estimate(
                                      line, Job("b", "v1", 1, 40, <<>>),
                                      Job("b", "v1", 1, 40, <<>>)).time
    /\ pc' = "looked"
    /\ UNCHANGED <<sorted, order, solver, idx, t, results, prev_job,
                   total_volume_since_cip, current_product_volume,
                   current_product_name, last_auto_cip_index, remaining_qty,
                   remaining_qty_pieces, part_number, iter>>
    /\ UNCHANGED <<inputVars, tableVars>>

SpecLookup == InitLookup /\ [][Lookup]_vars

\* The cell of the line's own column in the norms row of the event.
OwnCell(event) ==
    LET row == CHOOSE k \in DOMAIN norms :
                   norms[k].event = (IF event = "resolver" THEN "cip2" ELSE event)
    IN  norms[row].cols[line][1]

\* C29: on every line N in 1..10 each duration lookup reads the norms column
\* of line N itself and never the column of another line.
C29_NormsOfOwnLine ==
    pc = "looked" => ret = OwnCell(call.event)

=============================================================================
